---- MODULE Spec2Model ----
(***************************************************************************)
(* Consistent-hashing key-value service: the hash ring                     *)
(* (gateway/simple_hash_ring.py) and the gateway that owns one             *)
(* (gateway/gateway_service_simple.py).                                    *)
(*                                                                         *)
(* MD5 is an unknown but fixed function from strings to ring positions.    *)
(* The digest table `md5` is chosen once, arbitrarily, in the initial      *)
(* state and never changes; the 2^128 positions are scaled down to         *)
(* 0 .. NumPositions-1.  Distinct strings may share a digest.              *)
(***************************************************************************)
EXTENDS Integers, Sequences, FiniteSets, TLC

\* ------------------------------------------------------------------ bounds
\* SimpleHashRing(virtual_nodes = ...): replicas per node (150 by default,
\* 5 .. 50 in the unit tests), scaled down.
virtual_nodes == 2

\* Size of the position space standing for the 2^128 MD5 values.
NumPositions == 6

\* Largest `count` handed to get_nodes.
MaxCount == 3

\* The replicas of the ring that clear_nodes builds, SimpleHashRing(
\* virtual_nodes=100): scaled down like virtual_nodes, and smaller than it.
cleared_virtual_nodes == 1

\* How many times the clock advances in a run.
MaxTicks == 1

\* How many GossipMessage ids (accepted heartbeats) a run may use.
MaxMessages == 2

\* The periods in which the gateway cannot be reached by the storage node.
MaxOutages == 1

\* ------------------------------------------------------ program constants
\* self.heartbeat_timeout
heartbeat_timeout == 30

\* data.get('port', 8080)
DefaultPort == 8080

\* KVStoreService: seconds between two heartbeats, and between two attempts
\* to register.
heartbeat_interval == 10

registration_retry_interval == 5

\* One step of the clock: the shortest that lets a heartbeat time out.
TickSeconds == heartbeat_timeout + 1

\* ------------------------------------------------------------ the universe
NodeSeq == <<"kvstore-A", "kvstore-B", "kvstore-C">>

Nodes == {NodeSeq[j] : j \in 1 .. Len(NodeSeq)}

\* The node whose digests the initial state chooses freely; the digests of
\* the other nodes are laid out evenly (and, at the written bounds, without
\* collision) around the ring.
FreeNode == NodeSeq[Len(NodeSeq)]

Replicas == 0 .. (virtual_nodes - 1)

Positions == 0 .. (NumPositions - 1)

\* Python's None.
None == "None"

\* f"{node_id}:{i}"
virtual_key(node_id, i) == node_id \o ":" \o ToString(i)

VirtualKeys == {virtual_key(n, i) : n \in Nodes, i \in Replicas}

\* One lookup key per ring position, so that lookups cover the whole
\* position space: key_name(p) is a key whose digest is p.
key_name(p) == "key_" \o ToString(p)

Keys == {key_name(p) : p \in Positions}

KeyDigest == [k \in Keys |-> CHOOSE p \in Positions : key_name(p) = k]

\* Digests of the virtual keys of the nodes other than FreeNode: node j
\* (1-based in NodeSeq) has replica i at position (j - 1) + |Nodes| * i.
LaidOutDigest ==
    [s \in {virtual_key(NodeSeq[j], i) : j \in 1 .. (Len(NodeSeq) - 1), i \in Replicas} |->
        LET ji == CHOOSE ji \in (1 .. (Len(NodeSeq) - 1)) \X Replicas :
                      virtual_key(NodeSeq[ji[1]], ji[2]) = s
        IN  ((ji[1] - 1) + Len(NodeSeq) * ji[2]) % NumPositions]

\* The table in which FreeNode is laid out like the other nodes.
EvenDigest ==
    [s \in VirtualKeys |->
        LET ji == CHOOSE ji \in (1 .. Len(NodeSeq)) \X Replicas :
                      virtual_key(NodeSeq[ji[1]], ji[2]) = s
        IN  ((ji[1] - 1) + Len(NodeSeq) * ji[2]) % NumPositions] @@ KeyDigest

\* Digests of FreeNode's virtual keys: any positions at all, so FreeNode may
\* collide with another node, with itself, or with nothing.
FreeDigests == [{virtual_key(FreeNode, i) : i \in Replicas} -> Positions]

\* The digest tables the initial state chooses from.
Md5Tables == {(fd @@ LaidOutDigest) @@ KeyDigest : fd \in FreeDigests}

\* ------------------------------------------------------------------- state
VARIABLES
    md5,        \* the digest table: string -> position
    hash_ring,  \* the SimpleHashRing: [virtual_nodes, ring, sorted_keys, nodes]
    other_ring, \* a second SimpleHashRing, used to compare two histories
    prev_ring,  \* history: hash_ring before the last operation
    last_op,    \* history: the last operation, its arguments and its result
    nodes,      \* gateway: self.nodes, node_id -> NodeInfo
    node_lock,  \* gateway: the thread that holds self.node_lock, or None
    submitted,  \* gateway: the (peer, message) tasks handed to self.executor
    next_uuid,  \* gateway: how many GossipMessage ids uuid4 has produced
    now,        \* time.time(), in seconds
    pc,         \* gateway: where each thread is
    req,        \* gateway: the request each HTTP thread is serving
    resp,       \* gateway: the last response each HTTP thread produced
    hc,         \* gateway: the locals of _check_node_health
    gossip_messages, \* gateway: self.gossip_messages, the message ids seen
    cluster,    \* several gateways: each one's node table, ring, seen set, executor
    kv,         \* storage node: KVStoreService's fields and its threads' positions
    client,     \* KVStoreClient: the operation in progress and the requests it sent
    stores,     \* the storage nodes a client is sent to: each one's data map
    history     \* history of the health-check pass and of recoveries

ringVars == <<hash_ring, other_ring, prev_ring, last_op>>

envVars == <<cluster, kv, client, stores>>

gwVars == <<nodes, node_lock, submitted, next_uuid, now, pc, req, resp, hc,
            gossip_messages, history, envVars>>

vars == <<md5, hash_ring, other_ring, prev_ring, last_op,
          nodes, node_lock, submitted, next_uuid, now, pc, req, resp, hc,
          gossip_messages, history, cluster, kv, client, stores>>

\* SimpleHashRing._hash
_hash(key) == md5[key]

\* sorted(...) of a set of integers: the ascending sequence of its elements.
RECURSIVE sorted(_)
sorted(S) ==
    IF S = {} THEN <<>>
    ELSE LET m == CHOOSE x \in S : \A y \in S : x <= y
         IN  <<m>> \o sorted(S \ {m})

\* SimpleHashRing.__init__
SimpleHashRing(v) ==
    [virtual_nodes |-> v, ring |-> <<>>, sorted_keys |-> <<>>, nodes |-> {}]

\* self.ring[hash_val] = node_id
DictSet(d, k, v) == [x \in (DOMAIN d) \cup {k} |-> IF x = k THEN v ELSE d[x]]

\* del self.ring[hash_val]
DictDel(d, k) == [x \in (DOMAIN d) \ {k} |-> d[x]]

\* add_node's loop `for i in range(self.virtual_nodes)`, from index i on;
\* v is self.virtual_nodes.
RECURSIVE AddVirtualNodes(_, _, _, _)
AddVirtualNodes(ring, node_id, i, v) ==
    IF i >= v THEN ring
    ELSE AddVirtualNodes(DictSet(ring, _hash(virtual_key(node_id, i)), node_id),
                         node_id, i + 1, v)

\* Mutant of add_node: the positions are dealt out again among the live
\* nodes, position p going to the (p mod n)-th of them.
add_node_Modulo(self, node_id) ==
    IF node_id \in self.nodes THEN self
    ELSE LET ring  == AddVirtualNodes(self.ring, node_id, 0, self.virtual_nodes)
             live  == self.nodes \cup {node_id}
             order == sorted({j \in 1 .. Len(NodeSeq) : NodeSeq[j] \in live})
         IN  [self EXCEPT !.ring        = [p \in DOMAIN ring |->
                                              NodeSeq[order[(p % Len(order)) + 1]]],
                          !.sorted_keys = sorted(DOMAIN ring),
                          !.nodes       = live]

\* SimpleHashRing.add_node
add_node(self, node_id) ==
    IF node_id \in self.nodes THEN self
    ELSE LET ring == AddVirtualNodes(self.ring, node_id, 0, self.virtual_nodes)
         IN  [self EXCEPT !.ring        = ring,
                          !.sorted_keys = sorted(DOMAIN ring),
                          !.nodes       = self.nodes \cup {node_id}]

\* Mutant of RemoveVirtualNodes: `range(1, self.virtual_nodes)`, the first
\* replica of the node stays in the position map.
RemoveVirtualNodes_SkipFirst(ring, node_id, i, v) ==
    LET gone == {_hash(virtual_key(node_id, j)) : j \in (i + 1) .. (v - 1)}
    IN  [x \in (DOMAIN ring) \ gone |-> ring[x]]

\* remove_node's loop `for i in range(self.virtual_nodes)`, from index i on;
\* v is self.virtual_nodes.
RECURSIVE RemoveVirtualNodes(_, _, _, _)
RemoveVirtualNodes(ring, node_id, i, v) ==
    IF i >= v THEN ring
    ELSE LET hash_val == _hash(virtual_key(node_id, i))
         IN  RemoveVirtualNodes(
                 IF hash_val \in DOMAIN ring THEN DictDel(ring, hash_val) ELSE ring,
                 node_id, i + 1, v)

\* Mutant of remove_node: the trailing `self.sorted_keys = sorted(...)` is
\* missing.
remove_node_NoSort(self, node_id) ==
    IF node_id \notin self.nodes THEN self
    ELSE [self EXCEPT !.ring  = RemoveVirtualNodes(self.ring, node_id, 0,
                                                   self.virtual_nodes),
                      !.nodes = self.nodes \ {node_id}]

\* Mutant of remove_node: `self.nodes.remove(node_id)` is missing.
remove_node_KeepsNode(self, node_id) ==
    IF node_id \notin self.nodes THEN self
    ELSE LET ring == RemoveVirtualNodes(self.ring, node_id, 0, self.virtual_nodes)
         IN  [self EXCEPT !.ring        = ring,
                          !.sorted_keys = sorted(DOMAIN ring)]

\* SimpleHashRing.remove_node
remove_node(self, node_id) ==
    IF node_id \notin self.nodes THEN self
    ELSE LET ring == RemoveVirtualNodes(self.ring, node_id, 0, self.virtual_nodes)
         IN  [self EXCEPT !.ring        = ring,
                          !.sorted_keys = sorted(DOMAIN ring),
                          !.nodes       = self.nodes \ {node_id}]

\* Mutant of FirstAtOrAfter: `if ring_key > hash_val`.
FirstAtOrAfter_Strict(sorted_keys, hash_val) ==
    LET hits == {i \in 1 .. Len(sorted_keys) : sorted_keys[i] > hash_val}
    IN  IF hits = {} THEN 0
        ELSE CHOOSE i \in hits : \A j \in hits : i <= j

\* The least index of sorted_keys (1-based) whose position is >= hash_val,
\* 0 when the scan `for ring_key in self.sorted_keys` finds none.
FirstAtOrAfter(sorted_keys, hash_val) ==
    LET hits == {i \in 1 .. Len(sorted_keys) : sorted_keys[i] >= hash_val}
    IN  IF hits = {} THEN 0
        ELSE CHOOSE i \in hits : \A j \in hits : i <= j

\* Mutant of get_node: no wrap-around, None when no position is >= the key's.
get_node_NoWrap(self, key) ==
    IF DOMAIN self.ring = {} THEN None
    ELSE LET i == FirstAtOrAfter(self.sorted_keys, _hash(key))
         IN  IF i # 0 THEN self.ring[self.sorted_keys[i]]
             ELSE None

\* SimpleHashRing.get_node
get_node(self, key) ==
    IF DOMAIN self.ring = {} THEN None
    ELSE LET i == FirstAtOrAfter(self.sorted_keys, _hash(key))
         IN  IF i # 0 THEN self.ring[self.sorted_keys[i]]
             ELSE self.ring[self.sorted_keys[1]]

\* get_nodes' loop `for i in range(len(self.sorted_keys))`, from offset i on;
\* start_idx is 0-based as in the source.
RECURSIVE CollectNodes(_, _, _, _, _)
CollectNodes(self, start_idx, count, i, result) ==
    LET n == Len(self.sorted_keys) IN
    IF i >= n THEN result
    ELSE LET idx  == (start_idx + i) % n
             node == self.ring[self.sorted_keys[idx + 1]]
         IN  IF node \notin {result[j] : j \in 1 .. Len(result)}
             THEN IF Len(result) + 1 >= count
                  THEN Append(result, node)
                  ELSE CollectNodes(self, start_idx, count, i + 1, Append(result, node))
             ELSE CollectNodes(self, start_idx, count, i + 1, result)

\* Mutant of get_nodes: the walk breaks one node late (`len(result) > count`).
get_nodes_LateBreak(self, key, count) ==
    IF DOMAIN self.ring = {} \/ count <= 0 THEN <<>>
    ELSE LET f         == FirstAtOrAfter(self.sorted_keys, _hash(key))
             start_idx == IF f = 0 THEN 0 ELSE f - 1
         IN  CollectNodes(self, start_idx, count + 1, 0, <<>>)

\* Mutant of get_nodes: the walk always starts at index 0.
get_nodes_FromZero(self, key, count) ==
    IF DOMAIN self.ring = {} \/ count <= 0 THEN <<>>
    ELSE CollectNodes(self, 0, count, 0, <<>>)

\* SimpleHashRing.get_nodes
get_nodes(self, key, count) ==
    IF DOMAIN self.ring = {} \/ count <= 0 THEN <<>>
    ELSE LET f         == FirstAtOrAfter(self.sorted_keys, _hash(key))
             start_idx == IF f = 0 THEN 0 ELSE f - 1
         IN  CollectNodes(self, start_idx, count, 0, <<>>)

\* ------------------------------------------------------------ the gateway
\* SimpleGatewayService("gateway1", 8000, ["gateway2:8001", "gateway3:8002"])
gateway_id == "gateway1"

\* The other gateways.
PeerIds == <<"gateway2", "gateway3">>

peer_gateways == <<"gateway2:8001", "gateway3:8002">>

\* The threads of one gateway: Flask's request threads (threaded=True) and
\* the health-check thread.
HttpThreadSeq == <<"http-1", "http-2">>

HttpThreads == {HttpThreadSeq[i] : i \in 1 .. Len(HttpThreadSeq)}

HealthThread == "health"

Threads == HttpThreads \cup {HealthThread}

\* The JSON bodies storage nodes post to /heartbeat from their own address:
\* a complete one, and one without port.
OwnBodies ==
    {[node_id |-> NodeSeq[1], address |-> "10.0.0.7", port |-> 8081],
     [node_id |-> FreeNode,   address |-> "10.0.0.9"]}

\* All the bodies posted to /heartbeat: those, and one from another address
\* and port, one without node_id, one without address, one with an empty
\* node_id.
HeartbeatBodies ==
    OwnBodies \cup
    {[node_id |-> FreeNode,   address |-> "10.0.0.8", port |-> 8081],
     [address |-> "10.0.0.7", port |-> 8081],
     [node_id |-> FreeNode,   port |-> 8081],
     [node_id |-> "",         address |-> "10.0.0.9", port |-> 8081]}

\* dict.get(field, default)
get(data, field, default) == IF field \in DOMAIN data THEN data[field] ELSE default

\* NodeInfo.__init__
NodeInfo(node_id, address, port) ==
    [node_id |-> node_id, address |-> address, port |-> port,
     last_heartbeat |-> now, status |-> "active"]

\* NodeInfo.from_dict
from_dict(data) ==
    [NodeInfo(data.node_id, data.address, data.port) EXCEPT
        !.last_heartbeat = data.last_heartbeat,
        !.status = data.status]

\* Mutant of _add_node_to_ring: `self.hash_ring.add_node(node_id)` is missing.
_add_node_to_ring_NoRing(tbl, ring, node_data) ==
    [nodes     |-> IF node_data.node_id \notin DOMAIN tbl
                   THEN DictSet(tbl, node_data.node_id, from_dict(node_data))
                   ELSE tbl,
     hash_ring |-> ring]

\* SimpleGatewayService._add_node_to_ring, on the node table tbl and the
\* ring: the pair (self.nodes, self.hash_ring) it leaves.
_add_node_to_ring(tbl, ring, node_data) ==
    [nodes     |-> IF node_data.node_id \notin DOMAIN tbl
                   THEN DictSet(tbl, node_data.node_id, from_dict(node_data))
                   ELSE tbl,
     hash_ring |-> add_node(ring, node_data.node_id)]

\* Mutant of _remove_node_from_ring: `self.hash_ring.remove_node(node_id)` is
\* missing.
_remove_node_from_ring_TableOnly(tbl, ring, node_id) ==
    [nodes     |-> IF node_id \in DOMAIN tbl THEN DictDel(tbl, node_id) ELSE tbl,
     hash_ring |-> ring]

\* Mutant of _remove_node_from_ring: nothing is removed.
_remove_node_from_ring_Skip(tbl, ring, node_id) == [nodes |-> tbl, hash_ring |-> ring]

\* SimpleGatewayService._remove_node_from_ring
_remove_node_from_ring(tbl, ring, node_id) ==
    [nodes     |-> IF node_id \in DOMAIN tbl THEN DictDel(tbl, node_id) ELSE tbl,
     hash_ring |-> remove_node(ring, node_id)]

\* Mutant of Falsy: only an absent field counts.
Falsy_AbsentOnly(v) == v = None

\* Python's `not v` for a field of the body.
Falsy(v) == v = None \/ v = ""

\* Mutant of touch: the descriptor takes the address and port of the request.
touch_Overwrite(tbl, r) ==
    [tbl EXCEPT ![r.node_id].last_heartbeat = now,
                ![r.node_id].status = "active",
                ![r.node_id].address = r.address,
                ![r.node_id].port = r.port]

\* receive_heartbeat, lines 175-177: the heartbeat r of a known node.
touch(tbl, r) ==
    [tbl EXCEPT ![r.node_id].last_heartbeat = now,
                ![r.node_id].status = "active"]

\* str(uuid.uuid4()): an id no earlier message has.
uuid4 == "msg-" \o ToString(next_uuid + 1)

\* GossipMessage.__init__
GossipMessage(message_type, sender_id, data) ==
    [message_id |-> uuid4, message_type |-> message_type,
     sender_id |-> sender_id, data |-> data, timestamp |-> now]

\* SimpleGatewayService._send_gossip_to_peers: the tasks it submits to the
\* executor, in order.
_send_gossip_to_peers(message) ==
    [i \in 1 .. Len(peer_gateways) |-> [peer |-> peer_gateways[i], message |-> message]]

NoRequest == [endpoint |-> "none", data |-> <<>>, node_id |-> None, address |-> None,
              port |-> 0, new_node |-> FALSE, message |-> None, inbound |-> <<>>]

NoResponse == [status |-> 0, body |-> "none"]

NoHealthCheck == [current_time |-> 0, todo |-> {}, dead_nodes |-> <<>>, probing |-> None]

\* What the history records of the health-check pass in progress: the nodes
\* it found timed out when it took node_lock, the nodes it probed, those whose
\* probe failed, those it removed, and whether a heartbeat was applied while
\* it ran. And of recoveries: the nodes the health checker marked dead that no
\* heartbeat has been applied for since (marked), and the nodes a heartbeat
\* was applied for after they were last marked dead (revived).
NoHistory == [stale |-> {}, probed |-> {}, failed |-> {}, removed |-> {},
              heartbeat |-> FALSE, marked |-> {}, revived |-> {}, disturbed |-> {}]

\* The gateways of a cluster.
Gateways == {gateway_id} \cup {PeerIds[i] : i \in 1 .. Len(PeerIds)}

\* The peer list each gateway of the cluster was started with: a line, in
\* which the first and the last gateway are not each other's peers.
ClusterPeers ==
    [g \in Gateways |->
        IF g = gateway_id THEN <<PeerIds[1]>>
        ELSE IF g = PeerIds[1] THEN <<gateway_id, PeerIds[2]>>
        ELSE <<PeerIds[1]>>]

\* Other peer lists: a one-way cycle, in which no gateway is a peer of its
\* own peer; every gateway a peer of every other; and one gateway that has
\* the two others as peers and is nobody's peer.
CyclePeers ==
    [g \in Gateways |->
        IF g = gateway_id THEN <<PeerIds[1]>>
        ELSE IF g = PeerIds[1] THEN <<PeerIds[2]>>
        ELSE <<gateway_id>>]

MeshPeers ==
    [g \in Gateways |->
        IF g = gateway_id THEN <<PeerIds[1], PeerIds[2]>>
        ELSE IF g = PeerIds[1] THEN <<gateway_id, PeerIds[2]>>
        ELSE <<gateway_id, PeerIds[1]>>]

FanPeers ==
    [g \in Gateways |-> IF g = gateway_id THEN <<PeerIds[1], PeerIds[2]>> ELSE <<>>]

Topologies == {ClusterPeers, CyclePeers, MeshPeers, FanPeers}

\* SimpleGatewayService.__init__ for every gateway of the cluster; `executor`
\* is the tasks submitted to the gateway's thread pool and not yet run,
\* `sent` the ids of the messages the gateway made itself and `made` the
\* messages, `forwarded` how often the gateway has passed on each foreign
\* message id.
NoCluster ==
    [g \in Gateways |->
        [peer_gateways |-> ClusterPeers[g],
         nodes |-> <<>>, hash_ring |-> SimpleHashRing(virtual_nodes),
         gossip_messages |-> {}, executor |-> {}, sent |-> {}, made |-> {},
         forwarded |-> <<>>]]

\* No data request served yet.
NoDataRequest == [route |-> "none", key |-> None, value |-> None]

\* KVStoreService.__init__, with what the model keeps beside the object's
\* fields: `_explicitly_stopped` is FALSE until stop() creates the attribute
\* (health_check reads an absent attribute and a false one alike);
\* `pc` is the position of the heartbeat thread ("none" before start());
\* `sent` and `ok` are the kind of the last post to the gateway and whether it
\* was answered 200; `sleep` is the argument of the time.sleep in progress;
\* `health` is the last answer of GET /health; `stop_called` tells that
\* stop() has run; `gateway_up` and `outages` are the network between the
\* node and its gateway; `data` is self.data; `request` and `answer` are the
\* last data request served and its response; `acked` maps each key to the
\* value of its last put answered 200 that no delete answered 200 has
\* followed.
KVStoreService ==
    [node_id |-> NodeSeq[1], listen_address |-> "0.0.0.0", listen_port |-> 8081,
     running |-> FALSE, registered |-> FALSE, _explicitly_stopped |-> FALSE,
     pc |-> "none", sent |-> "none", ok |-> FALSE, sleep |-> 0,
     health |-> NoResponse, stop_called |-> FALSE,
     gateway_up |-> TRUE, outages |-> 0,
     data |-> <<>>, request |-> NoDataRequest, answer |-> NoResponse, acked |-> <<>>]

\* KVStoreClient.__init__; the object has no field but the gateway's
\* address, the rest is the call in progress: the operation and its key, the
\* position in it, the node the lookup named, every request issued to a
\* storage node, and the value returned; `value` is the argument of put.
\* Beside these, `written` records per key the last put that returned True
\* (its value, the node that stored it, and whether membership and that
\* node have stayed as they were since the put was called), and `churned`
\* whether they changed during the call in progress.
KVStoreClient ==
    [op |-> "none", key |-> None, pc |-> "idle", node |-> <<>>, requests |-> <<>>,
     ret |-> "none", value |-> None, written |-> <<>>, churned |-> FALSE]

\* The storage nodes behind the gateway, each a KVStoreService of which the
\* data map is kept and whether its server is up.
NoStores == [node_id \in Nodes |-> [data |-> <<>>, up |-> TRUE]]

\* ---------------------------------------------------------------- actions
\* The history record: `ret` is what get_node returned, `result` what
\* get_nodes returned.
NoOp == [op |-> "init", node_id |-> None, key |-> None, count |-> 0,
         ret |-> None, result |-> <<>>]

Init ==
    /\ md5 \in Md5Tables
    /\ hash_ring = SimpleHashRing(virtual_nodes)
    /\ other_ring = SimpleHashRing(virtual_nodes)
    /\ prev_ring = SimpleHashRing(virtual_nodes)
    /\ last_op = NoOp
    /\ nodes = <<>>
    /\ node_lock = None
    /\ submitted = <<>>
    /\ next_uuid = 0
    /\ now = 0
    /\ pc = [t \in Threads |-> "idle"]
    /\ req = [t \in HttpThreads |-> NoRequest]
    /\ resp = [t \in HttpThreads |-> NoResponse]
    /\ hc = NoHealthCheck
    /\ gossip_messages = {}
    /\ cluster = NoCluster
    /\ kv = KVStoreService
    /\ client = KVStoreClient
    /\ stores = NoStores
    /\ history = NoHistory

\* ring.add_node(node_id)
AddNode(node_id) ==
    /\ hash_ring' = add_node(hash_ring, node_id)
    /\ prev_ring' = hash_ring
    /\ last_op' = [NoOp EXCEPT !.op = "add_node", !.node_id = node_id]
    /\ UNCHANGED <<md5, other_ring>>
    /\ UNCHANGED gwVars

\* ring.remove_node(node_id)
RemoveNode(node_id) ==
    /\ hash_ring' = remove_node(hash_ring, node_id)
    /\ prev_ring' = hash_ring
    /\ last_op' = [NoOp EXCEPT !.op = "remove_node", !.node_id = node_id]
    /\ UNCHANGED <<md5, other_ring>>
    /\ UNCHANGED gwVars

\* ring.get_node(key)
GetNode(key) ==
    /\ last_op' = [NoOp EXCEPT !.op = "get_node", !.key = key,
                               !.ret = get_node(hash_ring, key)]
    /\ prev_ring' = hash_ring
    /\ UNCHANGED <<md5, hash_ring, other_ring>>
    /\ UNCHANGED gwVars

\* ring.get_nodes(key, count)
GetNodes(key, count) ==
    /\ last_op' = [NoOp EXCEPT !.op = "get_nodes", !.key = key, !.count = count,
                               !.result = get_nodes(hash_ring, key, count)]
    /\ prev_ring' = hash_ring
    /\ UNCHANGED <<md5, hash_ring, other_ring>>
    /\ UNCHANGED gwVars

Next ==
    \/ \E n \in Nodes : AddNode(n)
    \/ \E n \in Nodes : RemoveNode(n)

\* One SimpleHashRing under any sequence of add_node / remove_node calls.
Spec == Init /\ [][Next]_vars

NextLookup ==
    \/ \E n \in Nodes : AddNode(n)
    \/ \E n \in Nodes : RemoveNode(n)
    \/ \E k \in Keys : GetNode(k)
    \/ \E k \in Keys, c \in -1 .. MaxCount : GetNodes(k, c)

\* One SimpleHashRing under any sequence of its four operations.
SpecLookup == Init /\ [][NextLookup]_vars

\* A second SimpleHashRing (same virtual_nodes, same MD5) with its own
\* history of membership calls.
OtherAddNode(node_id) ==
    /\ other_ring' = add_node(other_ring, node_id)
    /\ UNCHANGED <<md5, hash_ring, prev_ring, last_op>>
    /\ UNCHANGED gwVars

OtherRemoveNode(node_id) ==
    /\ other_ring' = remove_node(other_ring, node_id)
    /\ UNCHANGED <<md5, hash_ring, prev_ring, last_op>>
    /\ UNCHANGED gwVars

NextPair ==
    \/ \E n \in Nodes : AddNode(n)
    \/ \E n \in Nodes : RemoveNode(n)
    \/ \E n \in Nodes : OtherAddNode(n)
    \/ \E n \in Nodes : OtherRemoveNode(n)

\* Two rings, each under its own sequence of add_node / remove_node calls.
SpecPair == Init /\ [][NextPair]_vars

\* ---------------------------------------------------- the gateway's steps
\* The gateway starts with the evenly laid-out digest table.
InitGateway == Init /\ md5 = EvenDigest

\* The heartbeats still being handled that have no message id yet.
InFlight == Cardinality({t \in HttpThreads : pc[t] \in {"hb_lock", "hb_gossip"}})

\* Request threads are interchangeable: a request goes to the first idle one.
FirstIdle ==
    LET i == CHOOSE i \in 1 .. Len(HttpThreadSeq) :
                 /\ pc[HttpThreadSeq[i]] = "idle"
                 /\ \A j \in 1 .. (i - 1) : pc[HttpThreadSeq[j]] # "idle"
    IN  HttpThreadSeq[i]

\* receive_heartbeat, lines 154-160: read the body; 400 when node_id or
\* address is missing, else go on to take node_lock.
ReceiveHeartbeat(t, data) ==
    /\ pc[t] = "idle"
    /\ t = FirstIdle
    /\ next_uuid + InFlight < MaxMessages
    /\ req' = [req EXCEPT ![t] =
                 [NoRequest EXCEPT
                     !.endpoint = "heartbeat",
                     !.data = data,
                     !.node_id = get(data, "node_id", None),
                     !.address = get(data, "address", None),
                     !.port = get(data, "port", DefaultPort)]]
    /\ IF Falsy(get(data, "node_id", None)) \/ Falsy(get(data, "address", None))
       THEN /\ resp' = [resp EXCEPT ![t] =
                          [status |-> 400, body |-> "Missing node_id or address"]]
            /\ pc' = pc
       ELSE /\ pc' = [pc EXCEPT ![t] = "hb_lock"]
            /\ resp' = [resp EXCEPT ![t] = NoResponse]
    /\ UNCHANGED <<md5, ringVars, nodes, node_lock, submitted, next_uuid, now, hc,
                   gossip_messages, envVars>>

\* receive_heartbeat, lines 163-177: the `with self.node_lock` block, entered
\* when the lock is free and left with the lock free again: add the new node
\* through _add_node_to_ring, or touch the known one.
HeartbeatUpdate(t) ==
    /\ pc[t] = "hb_lock"
    /\ node_lock = None
    /\ IF req[t].node_id \notin DOMAIN nodes
       THEN LET node_data == [node_id |-> req[t].node_id, address |-> req[t].address,
                              port |-> req[t].port, last_heartbeat |-> now,
                              status |-> "active"]
                after == _add_node_to_ring(nodes, hash_ring, node_data)
            IN  /\ nodes' = after.nodes
                /\ hash_ring' = after.hash_ring
                /\ req' = [req EXCEPT ![t].new_node = TRUE]
       ELSE /\ nodes' = touch(nodes, req[t])
            /\ hash_ring' = hash_ring
            /\ req' = req
    /\ pc' = [pc EXCEPT ![t] = "hb_gossip"]
    /\ UNCHANGED <<md5, other_ring, prev_ring, last_op, node_lock, submitted,
                   next_uuid, now, resp, hc,
                   gossip_messages, envVars>>

\* receive_heartbeat, line 180: _gossip_heartbeat builds one HEARTBEAT
\* message and submits it to the executor once per peer.
HeartbeatGossip(t) ==
    /\ pc[t] = "hb_gossip"
    /\ LET message == GossipMessage("HEARTBEAT", gateway_id,
                          [node_id |-> req[t].node_id, address |-> req[t].address,
                           port |-> req[t].port, timestamp |-> now])
       IN  /\ submitted' = submitted \o _send_gossip_to_peers(message)
           /\ req' = [req EXCEPT ![t].message = message.message_id]
    /\ next_uuid' = next_uuid + 1
    /\ pc' = [pc EXCEPT ![t] = "hb_respond"]
    /\ UNCHANGED <<md5, ringVars, nodes, node_lock, now, resp, hc,
                   gossip_messages, envVars>>

\* receive_heartbeat, line 182: the 200 response; the request is over.
HeartbeatRespond(t) ==
    /\ pc[t] = "hb_respond"
    /\ resp' = [resp EXCEPT ![t] = [status |-> 200, body |-> "heartbeat_received"]]
    /\ req' = [req EXCEPT ![t] = NoRequest]
    /\ pc' = [pc EXCEPT ![t] = "idle"]
    /\ UNCHANGED <<md5, ringVars, nodes, node_lock, submitted, next_uuid, now, hc,
                   gossip_messages, envVars>>

\* clear_nodes: the whole handler runs under node_lock.
ClearNodes(t) ==
    /\ pc[t] = "idle"
    /\ node_lock = None
    /\ nodes' = <<>>
    /\ hash_ring' = SimpleHashRing(cleared_virtual_nodes)
    /\ req' = [req EXCEPT ![t] = [NoRequest EXCEPT !.endpoint = "clear_nodes"]]
    /\ resp' = [resp EXCEPT ![t] = [status |-> 200, body |-> "success"]]
    /\ UNCHANGED <<md5, other_ring, prev_ring, last_op, node_lock, submitted,
                   next_uuid, now, pc, hc,
                   gossip_messages, envVars>>

\* _check_node_health, lines 274-275: read the clock, start with no dead nodes.
HealthCheckBegin ==
    /\ pc[HealthThread] = "idle"
    /\ hc' = [NoHealthCheck EXCEPT !.current_time = now]
    /\ pc' = [pc EXCEPT ![HealthThread] = "hc_lock"]
    /\ UNCHANGED <<md5, ringVars, nodes, node_lock, submitted, next_uuid, now, req, resp,
                   gossip_messages, envVars>>

\* _check_node_health, lines 277-279: take node_lock and start the loop over
\* self.nodes.items().
HealthCheckLock ==
    /\ pc[HealthThread] = "hc_lock"
    /\ node_lock \in {None, HealthThread}
    /\ node_lock' = HealthThread
    /\ hc' = [hc EXCEPT !.todo = DOMAIN nodes]
    /\ pc' = [pc EXCEPT ![HealthThread] = "hc_loop"]
    /\ UNCHANGED <<md5, ringVars, nodes, submitted, next_uuid, now, req, resp,
                   gossip_messages, envVars>>

\* Mutant of TimedOut: twice the timeout is allowed.
TimedOut_Doubled(node_id) ==
    hc.current_time - nodes[node_id].last_heartbeat > 2 * heartbeat_timeout

\* The loop body's test, line 284.
TimedOut(node_id) == hc.current_time - nodes[node_id].last_heartbeat > heartbeat_timeout

\* _check_node_health, lines 284-289: the heartbeat is too old; mark the node
\* dead unless it already is, and go on to the next node.
HealthCheckTimeout(node_id) ==
    /\ pc[HealthThread] = "hc_loop"
    /\ node_id \in hc.todo
    /\ TimedOut(node_id)
    /\ IF nodes[node_id].status # "dead"
       THEN /\ nodes' = [nodes EXCEPT ![node_id].status = "dead"]
            /\ hc' = [hc EXCEPT !.todo = @ \ {node_id},
                                !.dead_nodes = Append(@, node_id)]
       ELSE /\ nodes' = nodes
            /\ hc' = [hc EXCEPT !.todo = @ \ {node_id}]
    /\ UNCHANGED <<md5, ringVars, node_lock, submitted, next_uuid, now, pc, req, resp,
                   gossip_messages, envVars>>

\* _check_node_health, lines 292-295: the heartbeat is recent; send the
\* /health probe (node_lock is still held).
HealthCheckProbe(node_id) ==
    /\ pc[HealthThread] = "hc_loop"
    /\ node_id \in hc.todo
    /\ ~TimedOut(node_id)
    /\ hc' = [hc EXCEPT !.probing = node_id]
    /\ pc' = [pc EXCEPT ![HealthThread] = "hc_probe"]
    /\ UNCHANGED <<md5, ringVars, nodes, node_lock, submitted, next_uuid, now, req, resp,
                   gossip_messages, envVars>>

\* _check_node_health, lines 296-309: the probe returned 200, another status,
\* or raised.
HealthCheckProbed(outcome) ==
    /\ pc[HealthThread] = "hc_probe"
    /\ LET node_id == hc.probing IN
       IF outcome = "200"
       THEN /\ nodes' = [nodes EXCEPT ![node_id].status = "active"]
            /\ hc' = [hc EXCEPT !.todo = @ \ {node_id}, !.probing = None]
       ELSE IF nodes[node_id].status # "dead"
            THEN /\ nodes' = [nodes EXCEPT ![node_id].status = "dead"]
                 /\ hc' = [hc EXCEPT !.todo = @ \ {node_id}, !.probing = None,
                                     !.dead_nodes = Append(@, node_id)]
            ELSE /\ nodes' = nodes
                 /\ hc' = [hc EXCEPT !.todo = @ \ {node_id}, !.probing = None]
    /\ pc' = [pc EXCEPT ![HealthThread] = "hc_loop"]
    /\ UNCHANGED <<md5, ringVars, node_lock, submitted, next_uuid, now, req, resp,
                   gossip_messages, envVars>>

\* _check_node_health, line 310: the loop is over, node_lock is released.
HealthCheckUnlock ==
    /\ pc[HealthThread] = "hc_loop"
    /\ hc.todo = {}
    /\ node_lock' = None
    /\ pc' = [pc EXCEPT ![HealthThread] = "hc_remove"]
    /\ UNCHANGED <<md5, ringVars, nodes, submitted, next_uuid, now, req, resp, hc,
                   gossip_messages, envVars>>

\* _check_node_health, lines 314-315: _remove_node_from_ring for the next
\* dead node, under node_lock.
HealthCheckRemove ==
    /\ pc[HealthThread] = "hc_remove"
    /\ hc.dead_nodes # <<>>
    /\ node_lock \in {None, HealthThread}
    /\ LET after == _remove_node_from_ring(nodes, hash_ring, Head(hc.dead_nodes))
       IN  /\ nodes' = after.nodes
           /\ hash_ring' = after.hash_ring
    /\ hc' = [hc EXCEPT !.dead_nodes = Tail(@)]
    /\ UNCHANGED <<md5, other_ring, prev_ring, last_op, node_lock, submitted,
                   next_uuid, now, pc, req, resp,
                   gossip_messages, envVars>>

\* _health_check_loop: the pass is over; sleep until the next one.
HealthCheckEnd ==
    /\ pc[HealthThread] = "hc_remove"
    /\ hc.dead_nodes = <<>>
    /\ hc' = NoHealthCheck
    /\ pc' = [pc EXCEPT ![HealthThread] = "idle"]
    /\ UNCHANGED <<md5, ringVars, nodes, node_lock, submitted, next_uuid, now, req, resp,
                   gossip_messages, envVars>>

\* Time passes.
Tick ==
    /\ now < MaxTicks * TickSeconds
    /\ now' = now + TickSeconds
    /\ UNCHANGED <<md5, ringVars, nodes, node_lock, submitted, next_uuid, pc, req, resp, hc,
                   gossip_messages, envVars>>

\* ------------------------------------------------------- gossip intake
\* The JSON of HEARTBEAT messages that peers made from heartbeats they
\* accepted: one about a node this gateway can know, one about a node that
\* never sends this gateway a heartbeat.
PeerMessages ==
    {[message_id |-> "peer-msg-1", message_type |-> "HEARTBEAT",
      sender_id |-> PeerIds[1], timestamp |-> 0,
      data |-> [node_id |-> NodeSeq[1], address |-> "10.0.0.7", port |-> 8081,
                timestamp |-> 0]],
     [message_id |-> "peer-msg-2", message_type |-> "HEARTBEAT",
      sender_id |-> PeerIds[2], timestamp |-> 0,
      data |-> [node_id |-> NodeSeq[2], address |-> "10.0.0.5", port |-> 8081,
                timestamp |-> 0]]}

\* A peer's message of a type other than HEARTBEAT, about the first node.
ReservedMessages ==
    {[message_id |-> "peer-msg-3", message_type |-> "NODE_UPDATE",
      sender_id |-> PeerIds[1], timestamp |-> 0,
      data |-> [node_id |-> NodeSeq[1], address |-> "10.0.0.7", port |-> 8081,
                timestamp |-> 0]]}

\* What can arrive on /gossip: a peer's message, or a message this gateway
\* submitted to its peers and a peer sends back (to_dict keeps message_id and
\* sender_id).
Deliverable == PeerMessages \cup {submitted[i].message : i \in 1 .. Len(submitted)}

\* GossipMessage.from_dict
GossipMessage_from_dict(data) ==
    [GossipMessage(data.message_type, data.sender_id, data.data) EXCEPT
        !.message_id = data.message_id,
        !.timestamp = data.timestamp]

\* _process_gossip_message, lines 361-369: a HEARTBEAT message applied to the
\* node table.
apply_heartbeat(tbl, message) ==
    IF message.data.node_id \in DOMAIN tbl
    THEN [tbl EXCEPT ![message.data.node_id].last_heartbeat = message.data.timestamp,
                     ![message.data.node_id].status = "active"]
    ELSE tbl

\* Mutant of process_message: a HEARTBEAT message also puts its node into the
\* ring.
process_message_AddsToRing(tbl, ring, message) ==
    [nodes     |-> IF message.message_type = "HEARTBEAT"
                   THEN apply_heartbeat(tbl, message) ELSE tbl,
     hash_ring |-> IF message.message_type = "HEARTBEAT"
                   THEN add_node(ring, message.data.node_id) ELSE ring]

\* _process_gossip_message, lines 359-369: what processing a message does to
\* the node table and the ring. Only HEARTBEAT has a branch, and no branch
\* calls the ring.
process_message(tbl, ring, message) ==
    [nodes     |-> IF message.message_type = "HEARTBEAT"
                   THEN apply_heartbeat(tbl, message) ELSE tbl,
     hash_ring |-> ring]

\* Mutant of record_message: the id is not kept.
record_message_Forget(seen, message) == seen

\* _process_gossip_message, line 357: self.gossip_messages.add(message_id)
record_message(seen, message) == seen \cup {message.message_id}

\* Mutant of propagates: every message is passed on.
propagates_Always(message) == TRUE

\* _process_gossip_message, line 372: only a message another gateway sent is
\* passed on to the peers.
propagates(message) == message.sender_id # gateway_id

\* receive_gossip, lines 234-235: read the body and build the message.
ReceiveGossip(t, data) ==
    /\ pc[t] = "idle"
    /\ t = FirstIdle
    /\ req' = [req EXCEPT ![t] = [NoRequest EXCEPT
                                      !.endpoint = "gossip",
                                      !.inbound = GossipMessage_from_dict(data)]]
    /\ resp' = [resp EXCEPT ![t] = NoResponse]
    /\ pc' = [pc EXCEPT ![t] = "gs_seen"]
    /\ UNCHANGED <<md5, ringVars, nodes, node_lock, submitted, next_uuid, now, hc,
                   gossip_messages, envVars>>

\* _process_gossip_message, lines 353-357: the `with self.gossip_lock` block.
\* A message id seen before ends the handler with 200; a new one is recorded.
GossipSeen(t) ==
    /\ pc[t] = "gs_seen"
    /\ IF req[t].inbound.message_id \in gossip_messages
       THEN /\ gossip_messages' = gossip_messages
            /\ req' = [req EXCEPT ![t] = NoRequest]
            /\ resp' = [resp EXCEPT ![t] = [status |-> 200, body |-> "gossip_received"]]
            /\ pc' = [pc EXCEPT ![t] = "idle"]
       ELSE /\ gossip_messages' = record_message(gossip_messages, req[t].inbound)
            /\ req' = req
            /\ resp' = resp
            /\ pc' = [pc EXCEPT ![t] = "gs_apply"]
    /\ UNCHANGED <<md5, ringVars, nodes, node_lock, submitted, next_uuid, now, hc, envVars>>

\* _process_gossip_message, lines 361-369: a HEARTBEAT message is applied
\* under node_lock; any other type is not applied.
GossipApply(t) ==
    /\ pc[t] = "gs_apply"
    /\ req[t].inbound.message_type = "HEARTBEAT" => node_lock = None
    /\ LET after == process_message(nodes, hash_ring, req[t].inbound)
       IN  /\ nodes' = after.nodes
           /\ hash_ring' = after.hash_ring
    /\ pc' = [pc EXCEPT ![t] = "gs_forward"]
    /\ UNCHANGED <<md5, other_ring, prev_ring, last_op, node_lock, submitted, next_uuid,
                   now, req, resp, hc, gossip_messages, envVars>>

\* _process_gossip_message, lines 371-373, and receive_gossip, line 240: the
\* message is forwarded to the peers unless this gateway is its sender; 200.
GossipForward(t) ==
    /\ pc[t] = "gs_forward"
    /\ submitted' = IF propagates(req[t].inbound)
                    THEN submitted \o _send_gossip_to_peers(req[t].inbound)
                    ELSE submitted
    /\ req' = [req EXCEPT ![t] = NoRequest]
    /\ resp' = [resp EXCEPT ![t] = [status |-> 200, body |-> "gossip_received"]]
    /\ pc' = [pc EXCEPT ![t] = "idle"]
    /\ UNCHANGED <<md5, ringVars, nodes, node_lock, next_uuid, now, hc,
                   gossip_messages, envVars>>

NextGateway ==
    \/ \E t \in HttpThreads, data \in HeartbeatBodies :
          ReceiveHeartbeat(t, data) /\ UNCHANGED history
    \/ \E t \in HttpThreads : HeartbeatUpdate(t) /\ UNCHANGED history
    \/ \E t \in HttpThreads : HeartbeatGossip(t) /\ UNCHANGED history
    \/ \E t \in HttpThreads : HeartbeatRespond(t) /\ UNCHANGED history
    \/ \E t \in HttpThreads : ClearNodes(t) /\ UNCHANGED history
    \/ HealthCheckBegin /\ UNCHANGED history
    \/ HealthCheckLock /\ UNCHANGED history
    \/ \E n \in Nodes : HealthCheckTimeout(n) /\ UNCHANGED history
    \/ \E n \in Nodes : HealthCheckProbe(n) /\ UNCHANGED history
    \/ \E o \in {"200", "503", "error"} : HealthCheckProbed(o) /\ UNCHANGED history
    \/ HealthCheckUnlock /\ UNCHANGED history
    \/ HealthCheckRemove /\ UNCHANGED history
    \/ HealthCheckEnd /\ UNCHANGED history
    \/ Tick /\ UNCHANGED history

\* One gateway: two request threads, the health checker and the clock.
SpecGateway == InitGateway /\ [][NextGateway]_vars

\* The request threads alone: heartbeats and admin requests, and the clock.
NextHeartbeat ==
    \/ \E t \in HttpThreads, data \in HeartbeatBodies :
          ReceiveHeartbeat(t, data) /\ UNCHANGED history
    \/ \E t \in HttpThreads : HeartbeatUpdate(t) /\ UNCHANGED history
    \/ \E t \in HttpThreads : HeartbeatGossip(t) /\ UNCHANGED history
    \/ \E t \in HttpThreads : HeartbeatRespond(t) /\ UNCHANGED history
    \/ \E t \in HttpThreads : ClearNodes(t) /\ UNCHANGED history
    \/ Tick /\ UNCHANGED history

SpecHeartbeat == InitGateway /\ [][NextHeartbeat]_vars

\* The heartbeat bodies of the first node.
FirstNodeBodies == {data \in OwnBodies : data.node_id = NodeSeq[1]}

\* One gateway that takes heartbeats from the first node and gossip from its
\* peers.
NextGossip ==
    \/ \E t \in HttpThreads, data \in FirstNodeBodies :
          ReceiveHeartbeat(t, data) /\ UNCHANGED history
    \/ \E t \in HttpThreads : HeartbeatUpdate(t) /\ UNCHANGED history
    \/ \E t \in HttpThreads : HeartbeatGossip(t) /\ UNCHANGED history
    \/ \E t \in HttpThreads : HeartbeatRespond(t) /\ UNCHANGED history
    \/ \E t \in HttpThreads : \E data \in Deliverable :
          ReceiveGossip(t, data) /\ UNCHANGED history
    \/ \E t \in HttpThreads : GossipSeen(t) /\ UNCHANGED history
    \/ \E t \in HttpThreads : GossipApply(t) /\ UNCHANGED history
    \/ \E t \in HttpThreads : GossipForward(t) /\ UNCHANGED history
    \/ Tick /\ UNCHANGED history

SpecGossip == InitGateway /\ [][NextGossip]_vars

\* The peers' messages about the first node.
FirstNodeMessages == {data \in PeerMessages : data.data.node_id = NodeSeq[1]}

\* One gateway with its health checker running, taking heartbeats from the
\* first node and the peers' gossip about it.
NextMembership ==
    \/ \E t \in HttpThreads, data \in FirstNodeBodies :
          ReceiveHeartbeat(t, data) /\ UNCHANGED history
    \/ \E t \in HttpThreads : HeartbeatUpdate(t) /\ UNCHANGED history
    \/ \E t \in HttpThreads : HeartbeatGossip(t) /\ UNCHANGED history
    \/ \E t \in HttpThreads : HeartbeatRespond(t) /\ UNCHANGED history
    \/ \E t \in HttpThreads : \E data \in FirstNodeMessages :
          ReceiveGossip(t, data) /\ UNCHANGED history
    \/ \E t \in HttpThreads : GossipSeen(t) /\ UNCHANGED history
    \/ \E t \in HttpThreads : GossipApply(t) /\ UNCHANGED history
    \/ \E t \in HttpThreads : GossipForward(t) /\ UNCHANGED history
    \/ HealthCheckBegin /\ UNCHANGED history
    \/ HealthCheckLock /\ UNCHANGED history
    \/ \E n \in Nodes : HealthCheckTimeout(n) /\ UNCHANGED history
    \/ \E n \in Nodes : HealthCheckProbe(n) /\ UNCHANGED history
    \/ \E o \in {"200", "503", "error"} : HealthCheckProbed(o) /\ UNCHANGED history
    \/ HealthCheckUnlock /\ UNCHANGED history
    \/ HealthCheckRemove /\ UNCHANGED history
    \/ HealthCheckEnd /\ UNCHANGED history
    \/ Tick /\ UNCHANGED history

SpecMembership == InitGateway /\ [][NextMembership]_vars

Recorded(h) == history' = h

\* --------------------------------------------------------------- lookups
\* The keys looked up: one whose digest is the lowest position and one whose
\* digest is above every node's position.
LookupKeys == {key_name(0), key_name(NumPositions - 1)}

\* SimpleHashRing.get_node raises: the position map is not empty and
\* sorted_keys is empty (IndexError at line 70), or the position it comes to
\* in sorted_keys is not in the position map (KeyError at line 67 or 70).
get_node_raises(self, key) ==
    /\ DOMAIN self.ring # {}
    /\ \/ self.sorted_keys = <<>>
       \/ LET i == FirstAtOrAfter(self.sorted_keys, _hash(key))
          IN  self.sorted_keys[IF i # 0 THEN i ELSE 1] \notin DOMAIN self.ring

\* get_node_for_key, lines 199-200: `if not self.hash_ring.nodes`, read
\* without a lock; 404 when the ring has no nodes.
GetNodeForKey(t, key) ==
    /\ pc[t] = "idle"
    /\ t = FirstIdle
    /\ req' = [req EXCEPT ![t] = [NoRequest EXCEPT !.endpoint = "nodes_key",
                                                  !.data = [key |-> key]]]
    /\ IF hash_ring.nodes = {}
       THEN /\ resp' = [resp EXCEPT ![t] = [status |-> 404, body |-> "No nodes in ring"]]
            /\ pc' = pc
       ELSE /\ resp' = [resp EXCEPT ![t] = NoResponse]
            /\ pc' = [pc EXCEPT ![t] = "lk_ring"]
    /\ UNCHANGED <<md5, ringVars, nodes, node_lock, submitted, next_uuid, now, hc,
                   gossip_messages, envVars>>

\* get_node_for_key, line 202: self.hash_ring.get_node(key), without a lock;
\* an exception is answered with 500 (lines 213-215).
GetNodeForKeyRing(t) ==
    /\ pc[t] = "lk_ring"
    /\ IF get_node_raises(hash_ring, req[t].data.key)
       THEN /\ resp' = [resp EXCEPT ![t] = [status |-> 500, body |-> "error"]]
            /\ req' = req
            /\ pc' = [pc EXCEPT ![t] = "idle"]
       ELSE /\ resp' = resp
            /\ req' = [req EXCEPT ![t].node_id = get_node(hash_ring, req[t].data.key)]
            /\ pc' = [pc EXCEPT ![t] = "lk_lock"]
    /\ UNCHANGED <<md5, ringVars, nodes, node_lock, submitted, next_uuid, now, hc,
                   gossip_messages, envVars>>

\* get_node_for_key, lines 203-211: under node_lock, self.nodes.get(node_id);
\* 200 with the descriptor, or 404.
GetNodeForKeyDescriptor(t) ==
    /\ pc[t] = "lk_lock"
    /\ node_lock = None
    /\ resp' = [resp EXCEPT ![t] =
                  IF req[t].node_id \in DOMAIN nodes
                  THEN [status |-> 200, body |-> "node", key |-> req[t].data.key,
                        node |-> nodes[req[t].node_id]]
                  ELSE [status |-> 404, body |-> "Node not found"]]
    /\ pc' = [pc EXCEPT ![t] = "idle"]
    /\ UNCHANGED <<md5, ringVars, nodes, node_lock, submitted, next_uuid, now, req, hc,
                   gossip_messages, envVars>>

\* The ring's writers as a lookup sees them. A lookup reads the ring without
\* a lock, so it can run between any two statements of add_node and
\* remove_node; the node_lock blocks that call them are taken here in three
\* steps each: up to the change of the ring's `nodes`, the changes of the
\* position map, the assignment of sorted_keys.

\* receive_heartbeat, lines 163-177, for a known node; for a new node as far
\* as simple_hash_ring.py line 29: the descriptor is stored and the node_id is
\* added to the ring's `nodes`.
HeartbeatEnter(t) ==
    /\ pc[t] = "hb_lock"
    /\ node_lock = None
    /\ IF req[t].node_id \in DOMAIN nodes
       THEN /\ nodes' = touch(nodes, req[t])
            /\ UNCHANGED <<hash_ring, node_lock, req>>
            /\ pc' = [pc EXCEPT ![t] = "hb_gossip"]
       ELSE /\ nodes' = DictSet(nodes, req[t].node_id,
                                from_dict([node_id |-> req[t].node_id,
                                           address |-> req[t].address,
                                           port |-> req[t].port,
                                           last_heartbeat |-> now,
                                           status |-> "active"]))
            /\ req' = [req EXCEPT ![t].new_node = TRUE]
            /\ IF req[t].node_id \in hash_ring.nodes
               THEN /\ UNCHANGED <<hash_ring, node_lock>>
                    /\ pc' = [pc EXCEPT ![t] = "hb_gossip"]
               ELSE /\ hash_ring' = [hash_ring EXCEPT !.nodes = @ \cup {req[t].node_id}]
                    /\ node_lock' = t
                    /\ pc' = [pc EXCEPT ![t] = "hb_ring"]
    /\ UNCHANGED <<md5, other_ring, prev_ring, last_op, submitted, next_uuid, now, resp,
                   hc, gossip_messages, envVars>>

\* add_node, lines 32-35: the node's positions are put into the position map.
HeartbeatRing(t) ==
    /\ pc[t] = "hb_ring"
    /\ hash_ring' = [hash_ring EXCEPT
                        !.ring = AddVirtualNodes(@, req[t].node_id, 0,
                                                 hash_ring.virtual_nodes)]
    /\ pc' = [pc EXCEPT ![t] = "hb_sort"]
    /\ UNCHANGED <<md5, other_ring, prev_ring, last_op, nodes, node_lock, submitted,
                   next_uuid, now, req, resp, hc, gossip_messages, envVars>>

\* add_node, line 38, and the end of the node_lock block.
HeartbeatSort(t) ==
    /\ pc[t] = "hb_sort"
    /\ hash_ring' = [hash_ring EXCEPT !.sorted_keys = sorted(DOMAIN hash_ring.ring)]
    /\ node_lock' = None
    /\ pc' = [pc EXCEPT ![t] = "hb_gossip"]
    /\ UNCHANGED <<md5, other_ring, prev_ring, last_op, nodes, submitted, next_uuid, now,
                   req, resp, hc, gossip_messages, envVars>>

\* _remove_node_from_ring for the next dead node, as far as
\* simple_hash_ring.py line 45: the descriptor is deleted and the node_id is
\* taken out of the ring's `nodes`.
HealthCheckRemoveEnter ==
    /\ pc[HealthThread] = "hc_remove"
    /\ hc.dead_nodes # <<>>
    /\ node_lock = None
    /\ LET node_id == Head(hc.dead_nodes) IN
       /\ nodes' = IF node_id \in DOMAIN nodes THEN DictDel(nodes, node_id) ELSE nodes
       /\ IF node_id \in hash_ring.nodes
          THEN /\ hash_ring' = [hash_ring EXCEPT !.nodes = @ \ {node_id}]
               /\ node_lock' = HealthThread
               /\ hc' = hc
               /\ pc' = [pc EXCEPT ![HealthThread] = "hc_rm_ring"]
          ELSE /\ UNCHANGED <<hash_ring, node_lock, pc>>
               /\ hc' = [hc EXCEPT !.dead_nodes = Tail(@)]
    /\ UNCHANGED <<md5, other_ring, prev_ring, last_op, submitted, next_uuid, now, req,
                   resp, gossip_messages, envVars>>

\* remove_node, lines 48-52: the node's positions are deleted from the
\* position map.
HealthCheckRemoveRing ==
    /\ pc[HealthThread] = "hc_rm_ring"
    /\ hash_ring' = [hash_ring EXCEPT
                        !.ring = RemoveVirtualNodes(@, Head(hc.dead_nodes), 0,
                                                    hash_ring.virtual_nodes)]
    /\ pc' = [pc EXCEPT ![HealthThread] = "hc_rm_sort"]
    /\ UNCHANGED <<md5, other_ring, prev_ring, last_op, nodes, node_lock, submitted,
                   next_uuid, now, req, resp, hc, gossip_messages, envVars>>

\* remove_node, line 55, and the end of the node_lock block.
HealthCheckRemoveSort ==
    /\ pc[HealthThread] = "hc_rm_sort"
    /\ hash_ring' = [hash_ring EXCEPT !.sorted_keys = sorted(DOMAIN hash_ring.ring)]
    /\ node_lock' = None
    /\ hc' = [hc EXCEPT !.dead_nodes = Tail(@)]
    /\ pc' = [pc EXCEPT ![HealthThread] = "hc_remove"]
    /\ UNCHANGED <<md5, other_ring, prev_ring, last_op, nodes, submitted, next_uuid, now,
                   req, resp, gossip_messages, envVars>>

\* The lookups in progress.
LookingUp == {t \in HttpThreads : pc[t] \in {"lk_ring", "lk_lock"}}

\* A step of anything but a lookup: the lookups in progress are no longer
\* lookups in a gateway at rest.
Disturbs == Recorded([history EXCEPT !.disturbed = @ \cup LookingUp])

\* One gateway that answers lookups while heartbeats of the first node, the
\* health checker and admin clears write the ring. The clock stands still.
NextRouting ==
    \/ \E t \in HttpThreads, key \in LookupKeys :
          /\ GetNodeForKey(t, key)
          /\ Recorded([history EXCEPT !.disturbed =
                 IF node_lock = None /\ \A u \in Threads : pc[u] \in {"idle", "lk_ring", "lk_lock"}
                 THEN @ \ {t} ELSE @ \cup {t}])
    \/ \E t \in HttpThreads : GetNodeForKeyRing(t) /\ UNCHANGED history
    \/ \E t \in HttpThreads : GetNodeForKeyDescriptor(t) /\ UNCHANGED history
    \/ \E t \in HttpThreads, data \in FirstNodeBodies :
          ReceiveHeartbeat(t, data) /\ Disturbs
    \/ \E t \in HttpThreads : HeartbeatEnter(t) /\ Disturbs
    \/ \E t \in HttpThreads : HeartbeatRing(t) /\ Disturbs
    \/ \E t \in HttpThreads : HeartbeatSort(t) /\ Disturbs
    \/ \E t \in HttpThreads : HeartbeatGossip(t) /\ Disturbs
    \/ \E t \in HttpThreads : HeartbeatRespond(t) /\ Disturbs
    \/ \E t \in HttpThreads : ClearNodes(t) /\ Disturbs
    \/ HealthCheckBegin /\ Disturbs
    \/ HealthCheckLock /\ Disturbs
    \/ \E n \in Nodes : HealthCheckProbe(n) /\ Disturbs
    \/ \E o \in {"200", "503", "error"} : HealthCheckProbed(o) /\ Disturbs
    \/ HealthCheckUnlock /\ Disturbs
    \/ HealthCheckRemoveEnter /\ Disturbs
    \/ HealthCheckRemoveRing /\ Disturbs
    \/ HealthCheckRemoveSort /\ Disturbs
    \/ HealthCheckEnd /\ Disturbs

SpecRouting == InitGateway /\ [][NextRouting]_vars

\* ------------------------------------------------------- the storage node
\* receive_heartbeat as the storage node sees it, the whole handler at once:
\* the node table and ring after it, and the status it answers. The gateway
\* is one started without peers, so its gossip goes to nobody.
receive_heartbeat(tbl, ring, data) ==
    IF Falsy(get(data, "node_id", None)) \/ Falsy(get(data, "address", None))
    THEN [nodes |-> tbl, hash_ring |-> ring, status |-> 400]
    ELSE LET node_data == [node_id |-> data.node_id, address |-> data.address,
                           port |-> get(data, "port", DefaultPort),
                           last_heartbeat |-> now, status |-> "active"]
             after == IF data.node_id \notin DOMAIN tbl
                      THEN _add_node_to_ring(tbl, ring, node_data)
                      ELSE [nodes |-> touch(tbl, node_data), hash_ring |-> ring]
         IN  [nodes |-> after.nodes, hash_ring |-> after.hash_ring, status |-> 200]

\* _register_with_gateway, lines 219-223: the body of a registration.
registration_data(self) ==
    [node_id |-> self.node_id, address |-> self.listen_address, port |-> self.listen_port]

\* _send_heartbeat, lines 246-252: the body of a heartbeat.
heartbeat_data(self) ==
    [node_id |-> self.node_id, address |-> self.listen_address, port |-> self.listen_port,
     timestamp |-> now, key_count |-> 0]

\* Mutant of needs_registration: the loop never registers first.
needs_registration_Never(self) == FALSE

\* _heartbeat_loop, line 275
needs_registration(self) == ~self.registered

\* Mutant of accepted: no answer counts as success.
accepted_Never(status) == FALSE

\* _register_with_gateway, line 231, and _send_heartbeat, line 260
accepted(status) == status = 200

\* Mutant of after_heartbeat: a failed heartbeat leaves `registered` alone.
after_heartbeat_Keeps(self, success) == self

\* _heartbeat_loop, lines 284-286
after_heartbeat(self, success) ==
    IF success THEN self ELSE [self EXCEPT !.registered = FALSE]

\* Mutant of health_check: 'stopping' whenever the node is not running.
health_check_ByRunning(self) ==
    IF ~self.running
    THEN [status |-> 503, body |-> "stopping"]
    ELSE [status |-> 200, body |-> "healthy"]

\* health_check, lines 185-192
health_check(self) ==
    IF self._explicitly_stopped
    THEN [status |-> 503, body |-> "stopping"]
    ELSE [status |-> 200, body |-> "healthy"]

\* KVStoreService.start, lines 297-302; the Flask server is taken to answer
\* from construction on, as under the test client.
Start ==
    /\ kv.pc \in {"none", "done"}
    /\ kv' = [kv EXCEPT !.running = TRUE, !.pc = "loop"]
    /\ UNCHANGED <<md5, ringVars, nodes, node_lock, submitted, next_uuid, now, pc, req,
                   resp, hc, gossip_messages, history, cluster, client, stores>>

\* KVStoreService.stop, lines 312-314
Stop ==
    /\ ~kv.stop_called \/ kv.running
    /\ kv' = [kv EXCEPT !.running = FALSE, !.registered = FALSE,
                        !._explicitly_stopped = TRUE, !.stop_called = TRUE]
    /\ UNCHANGED <<md5, ringVars, nodes, node_lock, submitted, next_uuid, now, pc, req,
                   resp, hc, gossip_messages, history, cluster, client, stores>>

\* GET /health
HealthCheck ==
    /\ kv' = [kv EXCEPT !.health = health_check(kv)]
    /\ UNCHANGED <<md5, ringVars, nodes, node_lock, submitted, next_uuid, now, pc, req,
                   resp, hc, gossip_messages, history, cluster, client, stores>>

\* _heartbeat_loop, lines 273-277 and 284: the loop ends when `running` is
\* false; else the iteration posts a registration when the node is not
\* registered, and a heartbeat when it is.
LoopIterate ==
    /\ kv.pc = "loop"
    /\ kv' = IF ~kv.running THEN [kv EXCEPT !.pc = "done"]
             ELSE IF needs_registration(kv)
                  THEN [kv EXCEPT !.pc = "register", !.sent = "register"]
                  ELSE [kv EXCEPT !.pc = "heartbeat", !.sent = "heartbeat"]
    /\ UNCHANGED <<md5, ringVars, nodes, node_lock, submitted, next_uuid, now, pc, req,
                   resp, hc, gossip_messages, history, cluster, client, stores>>

\* The gateway's answer to a post of the node: its handler runs when the
\* gateway can be reached; when not, the post raises and the gateway is
\* unchanged.
Posted(data) ==
    IF kv.gateway_up
    THEN receive_heartbeat(nodes, hash_ring, data)
    ELSE [nodes |-> nodes, hash_ring |-> hash_ring, status |-> 0]

\* _register_with_gateway, lines 225-241, and _heartbeat_loop, lines 277-284:
\* the registration is answered; on 200 the node is registered and goes on
\* to send a heartbeat in the same iteration, else it sleeps
\* registration_retry_interval.
RegisterAnswered ==
    /\ kv.pc = "register"
    /\ LET answer == Posted(registration_data(kv)) IN
       /\ nodes' = answer.nodes
       /\ hash_ring' = answer.hash_ring
       /\ kv' = IF accepted(answer.status)
                THEN [kv EXCEPT !.registered = TRUE, !.ok = TRUE,
                                !.pc = "heartbeat", !.sent = "heartbeat"]
                ELSE [kv EXCEPT !.ok = FALSE, !.pc = "sleep",
                                !.sleep = registration_retry_interval]
    /\ UNCHANGED <<md5, other_ring, prev_ring, last_op, node_lock, submitted, next_uuid,
                   now, pc, req, resp, hc, gossip_messages, history, cluster, client, stores>>

\* _send_heartbeat, lines 254-269, and _heartbeat_loop, lines 284-293: the
\* heartbeat is answered; on anything but 200 the node is unregistered; the
\* iteration ends with a sleep of heartbeat_interval.
HeartbeatAnswered ==
    /\ kv.pc = "heartbeat"
    /\ LET answer == Posted(heartbeat_data(kv)) IN
       /\ nodes' = answer.nodes
       /\ hash_ring' = answer.hash_ring
       /\ kv' = [after_heartbeat(kv, accepted(answer.status)) EXCEPT
                    !.ok = accepted(answer.status),
                    !.pc = "sleep", !.sleep = heartbeat_interval]
    /\ UNCHANGED <<md5, other_ring, prev_ring, last_op, node_lock, submitted, next_uuid,
                   now, pc, req, resp, hc, gossip_messages, history, cluster, client, stores>>

\* time.sleep returns (lines 280-281 and 293): the next iteration.
Wake ==
    /\ kv.pc = "sleep"
    /\ kv' = [kv EXCEPT !.pc = "loop", !.sleep = 0]
    /\ UNCHANGED <<md5, ringVars, nodes, node_lock, submitted, next_uuid, now, pc, req,
                   resp, hc, gossip_messages, history, cluster, client, stores>>

\* The gateway goes out of the node's reach; it may be the gateway process
\* that ends, and then its node table and ring are lost.
Outage ==
    /\ kv.gateway_up
    /\ kv.outages < MaxOutages
    /\ kv' = [kv EXCEPT !.gateway_up = FALSE, !.outages = @ + 1]
    /\ \/ UNCHANGED <<nodes, hash_ring>>
       \/ /\ nodes' = <<>>
          /\ hash_ring' = SimpleHashRing(virtual_nodes)
    /\ UNCHANGED <<md5, other_ring, prev_ring, last_op, node_lock, submitted, next_uuid,
                   now, pc, req, resp, hc, gossip_messages, history, cluster, client, stores>>

\* The gateway can be reached again.
Restore ==
    /\ ~kv.gateway_up
    /\ kv' = [kv EXCEPT !.gateway_up = TRUE]
    /\ UNCHANGED <<md5, ringVars, nodes, node_lock, submitted, next_uuid, now, pc, req,
                   resp, hc, gossip_messages, history, cluster, client, stores>>

\* ------------------------------------------------- the storage node's data
StoreKeys == {"k1", "k2"}

StoreValues == {"v1", "v2", "v3"}

\* The JSON bodies posted to /put: complete ones, one without value, one
\* without key, one with an empty key.
PutBodies ==
    {[key |-> k, value |-> v] : k \in StoreKeys, v \in StoreValues} \cup
    {[key |-> "k1"], [value |-> "v1"], [key |-> "", value |-> "v1"]}

\* The JSON bodies posted to /get and /delete: a key, or nothing.
KeyBodies == {[key |-> k] : k \in StoreKeys} \cup {<<>>}

\* put_key, lines 56-71
put_key(self, body) ==
    LET key   == get(body, "key", None)
        value == get(body, "value", None)
    IN  IF Falsy(key)
        THEN [data |-> self.data, answer |-> [status |-> 400, body |-> "Missing key"]]
        ELSE [data |-> DictSet(self.data, key, value),
              answer |-> [status |-> 200, body |-> "stored", key |-> key]]

\* get_key, lines 82-90
get_key(self, key) ==
    IF key \in DOMAIN self.data
    THEN [data |-> self.data,
          answer |-> [status |-> 200, body |-> "value", key |-> key,
                      value |-> self.data[key]]]
    ELSE [data |-> self.data, answer |-> [status |-> 404, body |-> "Key not found"]]

\* get_key_by_body, lines 100-115
get_key_by_body(self, body) ==
    LET key == get(body, "key", None)
    IN  IF Falsy(key)
        THEN [data |-> self.data, answer |-> [status |-> 400, body |-> "Missing key"]]
        ELSE get_key(self, key)

\* Mutant of delete_key: the entry is not deleted.
delete_key_KeepsEntry(self, key) ==
    IF key \in DOMAIN self.data
    THEN [data |-> self.data,
          answer |-> [status |-> 200, body |-> "deleted", key |-> key]]
    ELSE [data |-> self.data, answer |-> [status |-> 404, body |-> "Key not found"]]

\* delete_key, lines 125-135
delete_key(self, key) ==
    IF key \in DOMAIN self.data
    THEN [data |-> DictDel(self.data, key),
          answer |-> [status |-> 200, body |-> "deleted", key |-> key]]
    ELSE [data |-> self.data, answer |-> [status |-> 404, body |-> "Key not found"]]

\* delete_key_by_body, lines 144-160
delete_key_by_body(self, body) ==
    LET key == get(body, "key", None)
    IN  IF Falsy(key)
        THEN [data |-> self.data, answer |-> [status |-> 400, body |-> "Missing key"]]
        ELSE delete_key(self, key)

\* The node after a handler has run with the result served: the map and the
\* answer are the handler's; a put answered 200 is the key's acknowledged
\* value, a delete answered 200 ends it.
serve(self, route, key, value, served) ==
    [self EXCEPT
        !.data = served.data,
        !.request = [route |-> route, key |-> key, value |-> value],
        !.answer = served.answer,
        !.acked = IF served.answer.status # 200 THEN @
                  ELSE IF route = "put" THEN DictSet(@, key, value)
                  ELSE IF route = "delete" THEN DictDel(@, key)
                  ELSE @]

\* POST /put
PutKey(body) ==
    /\ kv' = serve(kv, "put", get(body, "key", None), get(body, "value", None),
                   put_key(kv, body))
    /\ UNCHANGED <<md5, ringVars, nodes, node_lock, submitted, next_uuid, now, pc, req,
                   resp, hc, gossip_messages, history, cluster, client, stores>>

\* GET /get/<key>
GetKey(key) ==
    /\ kv' = serve(kv, "get", key, None, get_key(kv, key))
    /\ UNCHANGED <<md5, ringVars, nodes, node_lock, submitted, next_uuid, now, pc, req,
                   resp, hc, gossip_messages, history, cluster, client, stores>>

\* POST /get
GetKeyByBody(body) ==
    /\ kv' = serve(kv, "get", get(body, "key", None), None, get_key_by_body(kv, body))
    /\ UNCHANGED <<md5, ringVars, nodes, node_lock, submitted, next_uuid, now, pc, req,
                   resp, hc, gossip_messages, history, cluster, client, stores>>

\* DELETE /delete/<key>
DeleteKey(key) ==
    /\ kv' = serve(kv, "delete", key, None, delete_key(kv, key))
    /\ UNCHANGED <<md5, ringVars, nodes, node_lock, submitted, next_uuid, now, pc, req,
                   resp, hc, gossip_messages, history, cluster, client, stores>>

\* POST /delete
DeleteKeyByBody(body) ==
    /\ kv' = serve(kv, "delete", get(body, "key", None), None,
                   delete_key_by_body(kv, body))
    /\ UNCHANGED <<md5, ringVars, nodes, node_lock, submitted, next_uuid, now, pc, req,
                   resp, hc, gossip_messages, history, cluster, client, stores>>

\* One storage node serving data requests.
NextStore ==
    \/ \E body \in PutBodies : PutKey(body)
    \/ \E key \in StoreKeys : GetKey(key)
    \/ \E body \in KeyBodies : GetKeyByBody(body)
    \/ \E key \in StoreKeys : DeleteKey(key)
    \/ \E body \in KeyBodies : DeleteKeyByBody(body)

SpecStore == InitGateway /\ [][NextStore]_vars

\* One storage node, its heartbeat thread and one gateway.
NextNode ==
    \/ Start
    \/ Stop
    \/ HealthCheck
    \/ LoopIterate
    \/ RegisterAnswered
    \/ HeartbeatAnswered
    \/ Wake
    \/ Outage
    \/ Restore

SpecNode == InitGateway /\ [][NextNode]_vars

\* The heartbeat thread keeps running, every post is answered or raises
\* within its timeout, and an outage ends.
SpecNodeFair ==
    /\ SpecNode
    /\ WF_vars(LoopIterate)
    /\ WF_vars(RegisterAnswered)
    /\ WF_vars(HeartbeatAnswered)
    /\ WF_vars(Wake)
    /\ WF_vars(Restore)

\* ------------------------------------------------------------ the client
ClientOps == {"put", "get", "delete"}

\* Status codes a storage node answers with; 0 stands for a request that
\* raises (no answer, timeout).
StorageAnswers == {200, 404, 500, 0}

\* get_node_for_key, lines 199-211, as the client sees it, the whole handler
\* at once.
get_node_for_key(tbl, ring, key) ==
    IF ring.nodes = {}
    THEN [status |-> 404, body |-> "No nodes in ring"]
    ELSE LET node_id == get_node(ring, key) IN
         IF node_id \in DOMAIN tbl
         THEN [status |-> 200, body |-> "node", key |-> key, node |-> tbl[node_id]]
         ELSE [status |-> 404, body |-> "Node not found"]

\* What requests.get of the lookup can give the client: the handler's
\* answer, its 500 (lines 213-215), or no answer at all (status 0).
LookupOutcomes == {"answered", "raised", "unreachable"}

lookup(outcome, key) ==
    CASE outcome = "answered" -> get_node_for_key(nodes, hash_ring, key)
      [] outcome = "raised" -> [status |-> 500, body |-> "error"]
      [] outcome = "unreachable" -> [status |-> 0, body |-> "none"]

\* Mutant of failure: a failed get returns False as put and delete do.
failure_False(op) == "False"

\* Lines 339-340, 366-367 and 404-405 with the except clauses: what an
\* operation returns when it fails.
failure(op) == IF op = "get" THEN "None" ELSE "False"

\* Lines 337-338, 365-366 and 403-404: the lookup raised or its status is
\* not 200; lines 342, 370 and 408 raise when the answer names no node.
lookup_failed(response) == response.status # 200 \/ "node" \notin DOMAIN response

\* A request to the storage node the lookup named.
node_request(method, path) ==
    [method |-> method, address |-> client.node.address, port |-> client.node.port,
     path |-> path]

\* put, get or delete is called.
ClientCall(op, key) ==
    /\ client.pc = "idle"
    /\ client' = [KVStoreClient EXCEPT !.op = op, !.key = key, !.pc = "lookup"]
    /\ UNCHANGED <<md5, ringVars, nodes, node_lock, submitted, next_uuid, now, pc, req,
                   resp, hc, gossip_messages, history, cluster, kv, stores>>

\* Lines 336-343, 364-371, 402-409: GET /nodes/<key> at the gateway.
ClientLookup(outcome) ==
    /\ client.pc = "lookup"
    /\ LET response == lookup(outcome, client.key) IN
       client' = IF lookup_failed(response)
                 THEN [client EXCEPT !.pc = "done", !.ret = failure(client.op)]
                 ELSE [client EXCEPT !.pc = "post", !.node = response.node]
    /\ UNCHANGED <<md5, ringVars, nodes, node_lock, submitted, next_uuid, now, pc, req,
                   resp, hc, gossip_messages, history, cluster, kv, stores>>

\* Lines 346-352, 374-383, 412-421: the POST to the storage node. put
\* returns by its status; get and delete return on 200 and else go on to
\* the fallback request.
ClientPost(status) ==
    /\ client.pc = "post"
    /\ LET sent == [client EXCEPT
                      !.requests = Append(@, node_request("POST", "/" \o client.op))]
       IN  client' =
             IF client.op = "put"
             THEN [sent EXCEPT !.pc = "done",
                               !.ret = IF status = 200 THEN "True" ELSE "False"]
             ELSE IF status = 200
                  THEN [sent EXCEPT !.pc = "done",
                                    !.ret = IF client.op = "get" THEN "value" ELSE "True"]
                  ELSE [sent EXCEPT !.pc = "fallback"]
    /\ UNCHANGED <<md5, ringVars, nodes, node_lock, submitted, next_uuid, now, pc, req,
                   resp, hc, gossip_messages, history, cluster, kv, stores>>

\* Lines 385-392 and 423-428: GET /get/<key> or DELETE /delete/<key>.
ClientFallback(status) ==
    /\ client.pc = "fallback"
    /\ LET method == IF client.op = "get" THEN "GET" ELSE "DELETE"
           sent == [client EXCEPT
                      !.requests = Append(@, node_request(method,
                                             "/" \o client.op \o "/" \o client.key))]
       IN  client' =
             IF client.op = "get"
             THEN [sent EXCEPT !.pc = "done",
                               !.ret = IF status = 200 THEN "value" ELSE "None"]
             ELSE [sent EXCEPT !.pc = "done",
                               !.ret = IF status = 200 THEN "True" ELSE "False"]
    /\ UNCHANGED <<md5, ringVars, nodes, node_lock, submitted, next_uuid, now, pc, req,
                   resp, hc, gossip_messages, history, cluster, kv, stores>>

\* The call has returned; the client is ready for the next one.
ClientReturn ==
    /\ client.pc = "done"
    /\ client' = KVStoreClient
    /\ UNCHANGED <<md5, ringVars, nodes, node_lock, submitted, next_uuid, now, pc, req,
                   resp, hc, gossip_messages, history, cluster, kv, stores>>

\* A client, one gateway, and a storage node that registers with it.
NextClient ==
    \/ \E op \in ClientOps, key \in LookupKeys : ClientCall(op, key)
    \/ \E outcome \in LookupOutcomes : ClientLookup(outcome)
    \/ \E status \in StorageAnswers : ClientPost(status)
    \/ \E status \in StorageAnswers : ClientFallback(status)
    \/ ClientReturn
    \/ Start
    \/ LoopIterate
    \/ RegisterAnswered
    \/ HeartbeatAnswered
    \/ Wake
    \/ Outage
    \/ Restore

SpecClient == InitGateway /\ [][NextClient]_vars

\* ------------------------------------------------- the client end to end
\* The values a client puts.
ClientValues == {"v1", "v2"}

\* The key a client uses here: on a ring of the first node alone it is the
\* first node's by wrap-around, and it is another node's as soon as that
\* node has a position at or after the key's.
ClientKeys == {key_name(NumPositions - 1)}

\* The storage nodes that register with the gateway.
StorageBodies == OwnBodies

StorageNodes == {data.node_id : data \in StorageBodies}

\* The request of the client reaches the storage node the descriptor names
\* (its address and port are this node's) and the node's handler runs on
\* its data map; a node that is down gives no answer.
node_serves(node_id, route, key, value) ==
    LET self == stores[node_id] IN
    IF ~self.up
    THEN [data |-> self.data, answer |-> NoResponse]
    ELSE CASE route = "put" -> put_key(self, [key |-> key, value |-> value])
           [] route = "get" -> get_key_by_body(self, [key |-> key])
           [] route = "get_fallback" -> get_key(self, key)

\* Membership or a storage node has changed: no earlier put is undisturbed
\* any more, nor is the call in progress.
disturbed(c) ==
    [c EXCEPT !.churned = TRUE,
              !.written = [k \in DOMAIN @ |-> [@[k] EXCEPT !.steady = FALSE]]]

\* client.put(key, value) is called.
CallPut(key, value) ==
    /\ client.pc = "idle"
    /\ client' = [client EXCEPT !.op = "put", !.key = key, !.value = value,
                                !.pc = "lookup", !.node = <<>>, !.ret = "none",
                                !.churned = FALSE]
    /\ UNCHANGED <<md5, ringVars, nodes, node_lock, submitted, next_uuid, now, pc, req,
                   resp, hc, gossip_messages, history, cluster, kv, stores>>

\* client.get(key) is called.
CallGet(key) ==
    /\ client.pc = "idle"
    /\ client' = [client EXCEPT !.op = "get", !.key = key, !.value = None,
                                !.pc = "lookup", !.node = <<>>, !.ret = "none",
                                !.churned = FALSE]
    /\ UNCHANGED <<md5, ringVars, nodes, node_lock, submitted, next_uuid, now, pc, req,
                   resp, hc, gossip_messages, history, cluster, kv, stores>>

\* Lines 336-343 and 364-371: GET /nodes/<key>, answered by the gateway's
\* handler.
Resolve ==
    /\ client.pc = "lookup"
    /\ LET response == get_node_for_key(nodes, hash_ring, client.key) IN
       client' = IF lookup_failed(response)
                 THEN [client EXCEPT !.pc = "done", !.ret = failure(client.op)]
                 ELSE [client EXCEPT !.pc = "post", !.node = response.node]
    /\ UNCHANGED <<md5, ringVars, nodes, node_lock, submitted, next_uuid, now, pc, req,
                   resp, hc, gossip_messages, history, cluster, kv, stores>>

\* Lines 346-352: POST /put at the node; put returns whether the status is
\* 200.
PostPut ==
    /\ client.pc = "post"
    /\ client.op = "put"
    /\ LET node_id == client.node.node_id
           served == node_serves(node_id, "put", client.key, client.value)
       IN  /\ stores' = [stores EXCEPT ![node_id].data = served.data]
           /\ client' =
                IF served.answer.status = 200
                THEN [client EXCEPT
                         !.pc = "done", !.ret = "True",
                         !.written = DictSet(@, client.key,
                                        [value |-> client.value, owner |-> node_id,
                                         steady |-> ~client.churned])]
                ELSE [client EXCEPT !.pc = "done", !.ret = "False"]
    /\ UNCHANGED <<md5, ringVars, nodes, node_lock, submitted, next_uuid, now, pc, req,
                   resp, hc, gossip_messages, history, cluster, kv>>

\* Lines 374-383: POST /get at the node; on 200 get returns the value of
\* the answer, else it goes on to the fallback request.
PostGet ==
    /\ client.pc = "post"
    /\ client.op = "get"
    /\ LET served == node_serves(client.node.node_id, "get", client.key, None) IN
       client' = IF served.answer.status = 200
                 THEN [client EXCEPT !.pc = "done", !.ret = served.answer.value]
                 ELSE [client EXCEPT !.pc = "fallback"]
    /\ UNCHANGED <<md5, ringVars, nodes, node_lock, submitted, next_uuid, now, pc, req,
                   resp, hc, gossip_messages, history, cluster, kv, stores>>

\* Lines 385-394: GET /get/<key> at the node; get returns the value on 200
\* and None otherwise.
FallbackGet ==
    /\ client.pc = "fallback"
    /\ client.op = "get"
    /\ LET served == node_serves(client.node.node_id, "get_fallback", client.key, None) IN
       client' = IF served.answer.status = 200
                 THEN [client EXCEPT !.pc = "done", !.ret = served.answer.value]
                 ELSE [client EXCEPT !.pc = "done", !.ret = failure("get")]
    /\ UNCHANGED <<md5, ringVars, nodes, node_lock, submitted, next_uuid, now, pc, req,
                   resp, hc, gossip_messages, history, cluster, kv, stores>>

\* The call has returned.
Returned ==
    /\ client.pc = "done"
    /\ client' = [client EXCEPT !.pc = "idle"]
    /\ UNCHANGED <<md5, ringVars, nodes, node_lock, submitted, next_uuid, now, pc, req,
                   resp, hc, gossip_messages, history, cluster, kv, stores>>

\* A storage node that is up posts its heartbeat and the gateway's
\* receive_heartbeat handler runs: a node it does not know joins the ring.
Joins(data) ==
    /\ stores[data.node_id].up
    /\ data.node_id \notin DOMAIN nodes
    /\ LET after == receive_heartbeat(nodes, hash_ring, data) IN
          /\ nodes' = after.nodes
          /\ hash_ring' = after.hash_ring
    /\ client' = disturbed(client)
    /\ UNCHANGED <<md5, other_ring, prev_ring, last_op, node_lock, submitted, next_uuid,
                   now, pc, req, resp, hc, gossip_messages, history, cluster, kv, stores>>

\* The health checker has found the node dead and removes it
\* (_check_node_health, lines 312-315).
Evicts(node_id) ==
    /\ node_id \in DOMAIN nodes
    /\ LET after == _remove_node_from_ring(nodes, hash_ring, node_id) IN
          /\ nodes' = after.nodes
          /\ hash_ring' = after.hash_ring
    /\ client' = disturbed(client)
    /\ UNCHANGED <<md5, other_ring, prev_ring, last_op, node_lock, submitted, next_uuid,
                   now, pc, req, resp, hc, gossip_messages, history, cluster, kv, stores>>

\* A storage node's process ends, and with it the data map it kept in
\* memory.
Down(node_id) ==
    /\ stores[node_id].up
    /\ stores' = [stores EXCEPT ![node_id] = [data |-> <<>>, up |-> FALSE]]
    /\ client' = disturbed(client)
    /\ UNCHANGED <<md5, ringVars, nodes, node_lock, submitted, next_uuid, now, pc, req,
                   resp, hc, gossip_messages, history, cluster, kv>>

\* The storage node is started again, with KVStoreService.__init__'s empty
\* data map.
Up(node_id) ==
    /\ ~stores[node_id].up
    /\ stores' = [stores EXCEPT ![node_id].up = TRUE]
    /\ UNCHANGED <<md5, ringVars, nodes, node_lock, submitted, next_uuid, now, pc, req,
                   resp, hc, gossip_messages, history, cluster, kv, client>>

\* A client that puts and gets through one gateway, while storage nodes
\* join the gateway's ring, are removed from it, end and start again.
NextEndToEnd ==
    \/ \E key \in ClientKeys, value \in ClientValues : CallPut(key, value)
    \/ \E key \in ClientKeys : CallGet(key)
    \/ Resolve
    \/ PostPut
    \/ PostGet
    \/ FallbackGet
    \/ Returned
    \/ \E data \in StorageBodies : Joins(data)
    \/ \E node_id \in StorageNodes : Evicts(node_id)
    \/ \E node_id \in StorageNodes : Down(node_id)
    \/ \E node_id \in StorageNodes : Up(node_id)

SpecEndToEnd == InitGateway /\ [][NextEndToEnd]_vars

\* ------------------------------------------------------------ the cluster
\* Mutant of forwards: a gateway passes on nothing.
forwards_Never(g, message) == FALSE

\* _process_gossip_message, line 372, at gateway g.
forwards(g, message) == message.sender_id # g

\* _send_gossip_to_peers at gateway g: one task per peer of g.
tasks_to_peers(g, message) ==
    {[peer |-> cluster[g].peer_gateways[i], message |-> message] :
        i \in 1 .. Len(cluster[g].peer_gateways)}

\* The gateways of the cluster are started with the peer lists of topology
\* instead; this is before any of them has taken a heartbeat.
Configure(topology) ==
    /\ cluster = NoCluster
    /\ next_uuid = 0
    /\ topology # ClusterPeers
    /\ cluster' = [g \in Gateways |-> [NoCluster[g] EXCEPT !.peer_gateways = topology[g]]]
    /\ UNCHANGED <<md5, ringVars, nodes, node_lock, submitted, next_uuid, now, pc, req,
                   resp, hc, gossip_messages, history, kv, client, stores>>

\* receive_heartbeat at gateway g, the whole handler: the node is added or
\* touched, one HEARTBEAT message is made and submitted once per peer.
ClusterHeartbeat(g, data) ==
    /\ next_uuid < MaxMessages
    /\ LET self == cluster[g]
           node_data == [node_id |-> data.node_id, address |-> data.address,
                         port |-> get(data, "port", DefaultPort),
                         last_heartbeat |-> now, status |-> "active"]
           after == IF data.node_id \notin DOMAIN self.nodes
                    THEN _add_node_to_ring(self.nodes, self.hash_ring, node_data)
                    ELSE [nodes |-> touch(self.nodes, node_data),
                          hash_ring |-> self.hash_ring]
           message == GossipMessage("HEARTBEAT", g,
                          [node_id |-> node_data.node_id, address |-> node_data.address,
                           port |-> node_data.port, timestamp |-> now])
       IN  cluster' = [cluster EXCEPT
                          ![g].nodes = after.nodes,
                          ![g].hash_ring = after.hash_ring,
                          ![g].executor = @ \cup tasks_to_peers(g, message),
                          ![g].sent = @ \cup {message.message_id},
                          ![g].made = @ \cup {message}]
    /\ next_uuid' = next_uuid + 1
    /\ UNCHANGED <<md5, ringVars, nodes, node_lock, submitted, now, pc, req, resp, hc,
                   gossip_messages, history, kv, client, stores>>

\* _send_gossip_to_peer run by a worker of g's executor: the message is
\* posted to the peer, whose receive_gossip handler runs to its 200:
\* _process_gossip_message drops a message id it has seen, and otherwise
\* records it, applies it and passes it on to its own peers.
ClusterDeliver(g, task) ==
    /\ task \in cluster[g].executor
    /\ LET h == task.peer
           message == GossipMessage_from_dict(task.message)
           posted == [cluster EXCEPT ![g].executor = @ \ {task}]
           self == posted[h]
       IN  IF message.message_id \in self.gossip_messages
           THEN cluster' = posted
           ELSE LET after == process_message(self.nodes, self.hash_ring, message)
                IN  cluster' = [posted EXCEPT
                        ![h].gossip_messages = record_message(@, message),
                        ![h].nodes = after.nodes,
                        ![h].hash_ring = after.hash_ring,
                        ![h].executor = IF forwards(h, message)
                                        THEN @ \cup tasks_to_peers(h, message)
                                        ELSE @,
                        ![h].forwarded = IF forwards(h, message)
                                         THEN DictSet(@, message.message_id,
                                                      get(@, message.message_id, 0) + 1)
                                         ELSE @]
    /\ UNCHANGED <<md5, ringVars, nodes, node_lock, submitted, next_uuid, now, pc, req,
                   resp, hc, gossip_messages, history, kv, client, stores>>

\* A worker of some gateway's executor runs one of the submitted tasks.
Delivers == \E g \in Gateways : \E task \in cluster[g].executor : ClusterDeliver(g, task)

\* Gateways that pass each other the heartbeats of the first node.
NextCluster ==
    \/ \E g \in Gateways, data \in FirstNodeBodies : ClusterHeartbeat(g, data)
    \/ Delivers

\* The executors' workers keep running the submitted tasks, and every post
\* is answered.
SpecCluster == InitGateway /\ [][NextCluster]_vars /\ WF_vars(Delivers)

\* Gateways started with any of the peer lists, that pass on the messages
\* the first gateway makes of the first node's heartbeats.
NextFlood ==
    \/ \E topology \in Topologies : Configure(topology)
    \/ \E data \in FirstNodeBodies : ClusterHeartbeat(gateway_id, data)
    \/ Delivers

\* The executors' workers keep running the submitted tasks, and every post
\* is answered or fails within its timeout.
SpecFlood == InitGateway /\ [][NextFlood]_vars /\ WF_vars(Delivers)

\* The gateways of the line, with time passing between the heartbeats they
\* take, so that the messages carry different timestamps.
NextClusterClock ==
    \/ \E g \in Gateways, data \in FirstNodeBodies : ClusterHeartbeat(g, data)
    \/ Delivers
    \/ Tick /\ UNCHANGED history

SpecClusterClock == InitGateway /\ [][NextClusterClock]_vars /\ WF_vars(Delivers)

\* One gateway with everything that can write the ring: heartbeats of the
\* first node, the health checker's probes and removals, admin clears; and
\* the peers' gossip about the first node, of both kinds. The clock stands
\* still, so no heartbeat times out.
NextWriters ==
    \/ \E t \in HttpThreads, data \in FirstNodeBodies :
          ReceiveHeartbeat(t, data) /\ UNCHANGED history
    \/ \E t \in HttpThreads : HeartbeatUpdate(t) /\ UNCHANGED history
    \/ \E t \in HttpThreads : HeartbeatGossip(t) /\ UNCHANGED history
    \/ \E t \in HttpThreads : HeartbeatRespond(t) /\ UNCHANGED history
    \/ \E t \in HttpThreads : \E data \in FirstNodeMessages \cup ReservedMessages :
          ReceiveGossip(t, data) /\ UNCHANGED history
    \/ \E t \in HttpThreads : GossipSeen(t) /\ UNCHANGED history
    \/ \E t \in HttpThreads : GossipApply(t) /\ UNCHANGED history
    \/ \E t \in HttpThreads : GossipForward(t) /\ UNCHANGED history
    \/ \E t \in HttpThreads : ClearNodes(t) /\ UNCHANGED history
    \/ HealthCheckBegin /\ UNCHANGED history
    \/ HealthCheckLock /\ UNCHANGED history
    \/ \E n \in Nodes : HealthCheckProbe(n) /\ UNCHANGED history
    \/ \E o \in {"200", "503", "error"} : HealthCheckProbed(o) /\ UNCHANGED history
    \/ HealthCheckUnlock /\ UNCHANGED history
    \/ HealthCheckRemove /\ UNCHANGED history
    \/ HealthCheckEnd /\ UNCHANGED history

SpecWriters == InitGateway /\ [][NextWriters]_vars

\* The same steps, with the history of health-check passes and recoveries
\* recorded beside them.
MarkedDead(node_id) ==
    [history EXCEPT !.marked = @ \cup {node_id}, !.revived = @ \ {node_id}]

NextHealth ==
    \/ \E t \in HttpThreads, data \in OwnBodies :
          ReceiveHeartbeat(t, data) /\ UNCHANGED history
    \/ \E t \in HttpThreads :
          /\ HeartbeatUpdate(t)
          /\ Recorded([history EXCEPT
                 !.heartbeat = @ \/ pc[HealthThread] # "idle",
                 !.marked = @ \ {req[t].node_id},
                 !.revived = IF req[t].node_id \in history.marked
                             THEN @ \cup {req[t].node_id} ELSE @])
    \/ \E t \in HttpThreads : HeartbeatGossip(t) /\ UNCHANGED history
    \/ \E t \in HttpThreads : HeartbeatRespond(t) /\ UNCHANGED history
    \/ HealthCheckBegin /\ UNCHANGED history
    \/ /\ HealthCheckLock
       /\ Recorded([history EXCEPT !.stale =
              {n \in DOMAIN nodes :
                  /\ nodes[n].status # "dead"
                  /\ hc.current_time - nodes[n].last_heartbeat > heartbeat_timeout}])
    \/ \E n \in Nodes :
          /\ HealthCheckTimeout(n)
          /\ Recorded(IF nodes[n].status # "dead" THEN MarkedDead(n) ELSE history)
    \/ \E n \in Nodes :
          /\ HealthCheckProbe(n)
          /\ Recorded([history EXCEPT !.probed = @ \cup {n}])
    \/ /\ HealthCheckProbed("200")
       /\ UNCHANGED history
    \/ \E o \in {"503", "error"} :
          /\ HealthCheckProbed(o)
          /\ Recorded([(IF nodes[hc.probing].status # "dead"
                         THEN MarkedDead(hc.probing) ELSE history)
                        EXCEPT !.failed = @ \cup {hc.probing}])
    \/ HealthCheckUnlock /\ UNCHANGED history
    \/ /\ HealthCheckRemove
       /\ Recorded([history EXCEPT !.removed = @ \cup {Head(hc.dead_nodes)}])
    \/ /\ HealthCheckEnd
       /\ Recorded([NoHistory EXCEPT !.marked = history.marked,
                                     !.revived = history.revived])
    \/ Tick /\ UNCHANGED history

\* One gateway without admin requests, observed.
SpecHealth == InitGateway /\ [][NextHealth]_vars

\* ------------------------------------------------- vocabulary of the claims
\* The positions of the position map that hold node n.
Owned(self, n) == {p \in DOMAIN self.ring : self.ring[p] = n}

\* The nodes that hold at least one position.
Owners(self) == {self.ring[p] : p \in DOMAIN self.ring}

\* The positions node n hashes to in this ring, whoever holds them.
PositionsOf(self, n) == {md5[virtual_key(n, i)] : i \in 0 .. (self.virtual_nodes - 1)}

\* No two distinct (node_id, replica) pairs share a position.
CollisionFree == \A s, t \in VirtualKeys : s # t => md5[s] # md5[t]

\* The node at the least position >= hash(key), else at the least position.
SuccessorOwner(self, key) ==
    LET P  == DOMAIN self.ring
        ge == {p \in P : p >= md5[key]}
        lo(S) == CHOOSE x \in S : \A y \in S : x <= y
    IN  IF ge # {} THEN self.ring[lo(ge)] ELSE self.ring[lo(P)]

Elems(seq) == {seq[j] : j \in 1 .. Len(seq)}

IsPrefix(s, t) == Len(s) <= Len(t) /\ \A j \in 1 .. Len(s) : s[j] = t[j]

MinOf(a, b) == IF a <= b THEN a ELSE b

\* ---------------------------------------------------------------------- C1
\* C1 (as claimed): for every key, get_node returns None iff the live set
\* `nodes` is empty, and otherwise the node at the least position >= hash(key),
\* wrapping to the smallest position.
C1_AsClaimed ==
    last_op.op = "get_node" =>
        /\ (last_op.ret = None) <=> (hash_ring.nodes = {})
        /\ last_op.ret # None => last_op.ret = SuccessorOwner(hash_ring, last_op.key)

\* C1 (amended): for every key, get_node returns None iff the position map
\* `ring` is empty, which is the case whenever `nodes` is empty; otherwise it
\* returns the node at the least position >= hash(key), wrapping to the
\* smallest position.
C1_GetNodeSuccessor ==
    last_op.op = "get_node" =>
        /\ (last_op.ret = None) <=> (DOMAIN hash_ring.ring = {})
        /\ hash_ring.nodes = {} => last_op.ret = None
        /\ DOMAIN hash_ring.ring # {} =>
               last_op.ret = SuccessorOwner(hash_ring, last_op.key)

\* get_node has just answered by wrapping around: two or more nodes are live
\* and no position is >= the key's.
C1_Witness ==
    /\ last_op.op = "get_node"
    /\ Cardinality(hash_ring.nodes) >= 2
    /\ DOMAIN hash_ring.ring # {}
    /\ \A p \in DOMAIN hash_ring.ring : p < md5[last_op.key]
    /\ last_op.ret \in hash_ring.nodes

\* ---------------------------------------------------------------------- C2
\* C2 (as claimed): every live node is the value of exactly virtual_nodes
\* entries of `ring`, no entry has a value outside `nodes`, and
\* |ring| = hash_ring.virtual_nodes * |nodes|.
C2_AsClaimed ==
    /\ \A n \in hash_ring.nodes : Cardinality(Owned(hash_ring, n)) = hash_ring.virtual_nodes
    /\ Owners(hash_ring) \subseteq hash_ring.nodes
    /\ Cardinality(DOMAIN hash_ring.ring) = hash_ring.virtual_nodes * Cardinality(hash_ring.nodes)

\* C2 (amended): every live node is the value of at most virtual_nodes entries
\* of `ring`, no entry has a value outside `nodes`, and
\* |ring| <= hash_ring.virtual_nodes * |nodes|; when no two (node_id, replica) pairs
\* hash to the same position, "at most" is "exactly" and the sizes are equal.
C2_RingCardinality ==
    /\ \A n \in hash_ring.nodes : Cardinality(Owned(hash_ring, n)) <= hash_ring.virtual_nodes
    /\ Owners(hash_ring) \subseteq hash_ring.nodes
    /\ Cardinality(DOMAIN hash_ring.ring) <= hash_ring.virtual_nodes * Cardinality(hash_ring.nodes)
    /\ CollisionFree =>
         /\ \A n \in hash_ring.nodes :
                Cardinality(Owned(hash_ring, n)) = hash_ring.virtual_nodes
         /\ Cardinality(DOMAIN hash_ring.ring) =
                hash_ring.virtual_nodes * Cardinality(hash_ring.nodes)

\* A node has just been removed from a collision-free ring of three, and two
\* nodes with all their positions remain.
C2_Witness ==
    /\ CollisionFree
    /\ last_op.op = "remove_node"
    /\ Cardinality(prev_ring.nodes) = 3
    /\ Cardinality(hash_ring.nodes) = 2
    /\ Cardinality(DOMAIN hash_ring.ring) = 2 * hash_ring.virtual_nodes

\* ---------------------------------------------------------------------- C3
\* C3: after every completed add_node or remove_node, sorted_keys is strictly
\* ascending and holds exactly the keys of `ring`.
C3_SortedKeys ==
    LET sk == hash_ring.sorted_keys IN
    /\ \A i, j \in 1 .. Len(sk) : i < j => sk[i] < sk[j]
    /\ Elems(sk) = DOMAIN hash_ring.ring
    /\ Len(sk) = Cardinality(DOMAIN hash_ring.ring)

\* remove_node has just dropped positions from the middle of the sequence and
\* at least two remain.
C3_Witness ==
    /\ last_op.op = "remove_node"
    /\ Len(hash_ring.sorted_keys) >= 2
    /\ Len(hash_ring.sorted_keys) < Len(prev_ring.sorted_keys)
    /\ \E p \in DOMAIN prev_ring.ring \ DOMAIN hash_ring.ring :
           /\ \E q \in DOMAIN hash_ring.ring : q < p
           /\ \E q \in DOMAIN hash_ring.ring : q > p

\* ---------------------------------------------------------------------- C4
\* C4 (as claimed): two rings that end with the same live set give the same
\* owner to every key, whatever the order of their add_node / remove_node calls.
C4_AsClaimed ==
    hash_ring.nodes = other_ring.nodes =>
        \A k \in Keys : get_node(hash_ring, k) = get_node(other_ring, k)

\* C4 (amended): when no two (node_id, replica) pairs hash to the same
\* position, two rings that end with the same live set give the same owner to
\* every key, whatever the order of their add_node / remove_node calls.
C4_OwnerDependsOnLiveSet ==
    (CollisionFree /\ hash_ring.nodes = other_ring.nodes) =>
        \A k \in Keys : get_node(hash_ring, k) = get_node(other_ring, k)

\* Two rings reached the same two live nodes on a collision-free table, one of
\* them through the removal of a third node.
C4_Witness ==
    /\ CollisionFree
    /\ hash_ring.nodes = other_ring.nodes
    /\ Cardinality(hash_ring.nodes) = 2
    /\ last_op.op = "remove_node"
    /\ Cardinality(prev_ring.nodes) = 3

\* ---------------------------------------------------------------------- C5
\* C5 (as claimed): add_node twice equals add_node once, remove_node twice
\* equals remove_node once, and for a node not in the ring add_node followed by
\* remove_node restores the state before the add.
C5_AsClaimed ==
    \A n \in Nodes :
        /\ add_node(add_node(hash_ring, n), n) = add_node(hash_ring, n)
        /\ remove_node(remove_node(hash_ring, n), n) = remove_node(hash_ring, n)
        /\ n \notin hash_ring.nodes =>
               remove_node(add_node(hash_ring, n), n) = hash_ring

\* C5 (amended): add_node twice equals add_node once, remove_node twice equals
\* remove_node once, and for a node not in the ring none of whose positions is
\* already a key of `ring`, add_node followed by remove_node restores the state
\* before the add.
C5_IdempotentInvertible ==
    \A n \in Nodes :
        /\ add_node(add_node(hash_ring, n), n) = add_node(hash_ring, n)
        /\ remove_node(remove_node(hash_ring, n), n) = remove_node(hash_ring, n)
        /\ (n \notin hash_ring.nodes /\ PositionsOf(hash_ring, n) \cap DOMAIN hash_ring.ring = {}) =>
               remove_node(add_node(hash_ring, n), n) = hash_ring

\* remove_node(n) has just undone an add_node(n): n took only free positions
\* next to another live node, and the state is again the one before the add.
C5_Witness ==
    /\ last_op.op = "remove_node"
    /\ last_op.node_id \in prev_ring.nodes
    /\ hash_ring.nodes # {}
    /\ PositionsOf(hash_ring, last_op.node_id) \cap DOMAIN hash_ring.ring = {}
    /\ add_node(hash_ring, last_op.node_id) = prev_ring

\* ---------------------------------------------------------------------- C6
\* C6 (as claimed): with a non-empty live set, get_node returns a member of
\* the live set for every key.
C6_AsClaimed ==
    (last_op.op = "get_node" /\ hash_ring.nodes # {}) =>
        last_op.ret \in hash_ring.nodes

\* C6 (amended): with a non-empty position map, get_node returns a member of
\* the live set for every key (never None, never a removed node); with a
\* non-empty live set it returns None only when collisions have left the
\* position map empty, so never when no two (node_id, replica) pairs collide.
C6_OwnerIsLive ==
    last_op.op = "get_node" =>
        /\ DOMAIN hash_ring.ring # {} => last_op.ret \in hash_ring.nodes
        /\ (CollisionFree /\ hash_ring.nodes # {}) => last_op.ret \in hash_ring.nodes
        /\ (hash_ring.nodes # {} /\ last_op.ret \notin hash_ring.nodes) =>
               (last_op.ret = None /\ DOMAIN hash_ring.ring = {})

\* get_node has just answered on a ring from which a node had been removed
\* before, and the removed node holds positions on both sides of the key.
C6_Witness ==
    /\ last_op.op = "get_node"
    /\ last_op.ret \in hash_ring.nodes
    /\ hash_ring.nodes # Nodes
    /\ \E n \in Nodes \ hash_ring.nodes :
           /\ n \in Owners(add_node(hash_ring, n))
           /\ get_node(add_node(hash_ring, n), last_op.key) = n

\* ---------------------------------------------------------------------- C7
\* C7 (as claimed): get_nodes(k, count) is a list of pairwise-distinct live
\* nodes of length min(count, |nodes|) when count > 0 and the ring is
\* non-empty, and the empty list when count <= 0 or the ring is empty.
C7_AsClaimed ==
    last_op.op = "get_nodes" =>
        LET r == last_op.result
            c == last_op.count IN
        /\ Cardinality(Elems(r)) = Len(r)
        /\ Elems(r) \subseteq hash_ring.nodes
        /\ (c > 0 /\ DOMAIN hash_ring.ring # {}) =>
               Len(r) = MinOf(c, Cardinality(hash_ring.nodes))
        /\ (c <= 0 \/ DOMAIN hash_ring.ring = {}) => r = <<>>

\* C7 (amended): get_nodes(k, count) is a list of pairwise-distinct live nodes
\* whose length is min(count, number of nodes that hold at least one position)
\* when count > 0 and the ring is non-empty, and the empty list when
\* count <= 0 or the ring is empty; when no two (node_id, replica) pairs
\* collide that length is min(count, |nodes|).
C7_GetNodesLength ==
    last_op.op = "get_nodes" =>
        LET r == last_op.result
            c == last_op.count IN
        /\ Cardinality(Elems(r)) = Len(r)
        /\ Elems(r) \subseteq hash_ring.nodes
        /\ (c > 0 /\ DOMAIN hash_ring.ring # {}) =>
               Len(r) = MinOf(c, Cardinality(Owners(hash_ring)))
        /\ (c > 0 /\ DOMAIN hash_ring.ring # {} /\ CollisionFree) =>
               Len(r) = MinOf(c, Cardinality(hash_ring.nodes))
        /\ (c <= 0 \/ DOMAIN hash_ring.ring = {}) => r = <<>>

\* get_nodes has just returned two of three live nodes, having skipped a
\* position of a node it had already emitted.
C7_Witness ==
    /\ last_op.op = "get_nodes"
    /\ last_op.count = 2
    /\ Len(last_op.result) = 2
    /\ Cardinality(hash_ring.nodes) = 3
    /\ LET f == FirstAtOrAfter(hash_ring.sorted_keys, md5[last_op.key])
       IN  /\ f # 0
           /\ f + 1 <= Len(hash_ring.sorted_keys)
           /\ hash_ring.ring[hash_ring.sorted_keys[f + 1]] = last_op.result[1]

\* ---------------------------------------------------------------------- C8
\* C8: on a non-empty ring, for every key and every count c >= 1, the first
\* element of get_nodes(k, c) is get_node(k), and get_nodes(k, c) is a prefix
\* of get_nodes(k, c + 1).
C8_FirstAndPrefix ==
    (last_op.op = "get_nodes" /\ last_op.count >= 1 /\ DOMAIN hash_ring.ring # {}) =>
        /\ last_op.result # <<>>
        /\ last_op.result[1] = get_node(hash_ring, last_op.key)
        /\ IsPrefix(last_op.result,
                    get_nodes(hash_ring, last_op.key, last_op.count + 1))

\* get_nodes has just returned three nodes for a key that wraps around.
C8_Witness ==
    /\ last_op.op = "get_nodes"
    /\ Len(last_op.result) = 3
    /\ \A p \in DOMAIN hash_ring.ring : p < md5[last_op.key]
    /\ last_op.result[1] = get_node(hash_ring, last_op.key)

\* ---------------------------------------------------------------------- C9
\* C9: removing node n only remaps n's keys: every key whose owner before
\* remove_node(n) was not n has the same owner after it.
C9_RemoveOnlyRemapsOwn ==
    (last_op.op = "remove_node" /\ last_op.node_id \in prev_ring.nodes) =>
        \A k \in Keys :
            get_node(prev_ring, k) # last_op.node_id =>
                get_node(hash_ring, k) = get_node(prev_ring, k)

\* ---------------------------------------------------------------- C10
\* The request r of a heartbeat has its descriptor, active, in the node
\* table tbl and its node_id in the live set of ring.
Registered(r, tbl, ring) ==
    /\ r.node_id \in DOMAIN tbl
    /\ tbl[r.node_id].address = r.address
    /\ tbl[r.node_id].port = r.port
    /\ tbl[r.node_id].status = "active"
    /\ r.node_id \in ring.nodes

\* The tasks in the executor's submissions that carry the message of request
\* r to peer: HEARTBEAT messages of this gateway about r's node.
GossipTasks(r, peer) ==
    {i \in 1 .. Len(submitted) :
        /\ submitted[i].peer = peer
        /\ submitted[i].message.message_id = r.message
        /\ submitted[i].message.message_type = "HEARTBEAT"
        /\ submitted[i].message.sender_id = gateway_id
        /\ submitted[i].message.data.node_id = r.node_id
        /\ submitted[i].message.data.address = r.address
        /\ submitted[i].message.data.port = r.port}

GossipSubmitted(r) ==
    \A k \in 1 .. Len(peer_gateways) : Cardinality(GossipTasks(r, peer_gateways[k])) = 1

\* The step in which thread t produces the 200 response to a heartbeat that
\* found no descriptor.
RespondsToNewNode(t) == pc[t] = "hb_respond" /\ pc'[t] = "idle" /\ req[t].new_node

\* C10 as stated: when the 200 response to a heartbeat for a node_id without
\* descriptor is produced, the descriptor exists with the given address and
\* port and status active, the node_id is in the ring's live set, and one
\* HEARTBEAT message has been submitted to every peer.
C10_AsClaimed ==
    [][\A t \in HttpThreads :
          RespondsToNewNode(t) =>
              Registered(req[t], nodes, hash_ring) /\ GossipSubmitted(req[t])]_vars

\* C10, amended: a heartbeat for a node_id without descriptor leaves its
\* node_lock block with a descriptor of the given address and port (8080 when
\* the body has none) and status active in the node table and the node_id in
\* the ring's live set; and when its 200 response is produced one HEARTBEAT
\* message for it has been submitted to every configured peer. (Between the
\* two a health-check pass or clear_nodes may have taken the node out again.)
C10_NewNodeRegistered ==
    [][\A t \in HttpThreads :
          /\ (pc[t] = "hb_lock" /\ pc'[t] = "hb_gossip"
                  /\ req[t].node_id \notin DOMAIN nodes)
                 => Registered(req[t], nodes', hash_ring')
          /\ RespondsToNewNode(t) => GossipSubmitted(req[t])]_vars

\* A heartbeat for an unknown node is about to be answered 200 with the node
\* registered and its gossip submitted.
C10_Witness ==
    \E t \in HttpThreads :
        /\ pc[t] = "hb_respond"
        /\ req[t].new_node
        /\ req[t].port = DefaultPort
        /\ Registered(req[t], nodes, hash_ring)
        /\ GossipSubmitted(req[t])

\* ---------------------------------------------------------------- C11
\* The steps of thread t's heartbeat handler.
HeartbeatUpdates(t) == pc[t] = "hb_lock" /\ pc'[t] = "hb_gossip"

HeartbeatGossips(t) == pc[t] = "hb_gossip" /\ pc'[t] = "hb_respond"

HeartbeatResponds(t) == pc[t] = "hb_respond" /\ pc'[t] = "idle"

\* Thread t's heartbeat is for a node_id that has a descriptor when the
\* handler is inside its node_lock block.
OfKnownNode(t) ==
    \/ HeartbeatUpdates(t) /\ req[t].node_id \in DOMAIN nodes
    \/ (HeartbeatGossips(t) \/ HeartbeatResponds(t)) /\ ~req[t].new_node

\* The tasks submitted in this step are one HEARTBEAT message of request r,
\* once per configured peer.
EmitsGossip(r) ==
    /\ Len(submitted') = Len(submitted) + Len(peer_gateways)
    /\ SubSeq(submitted', 1, Len(submitted)) = submitted
    /\ \A k \in 1 .. Len(peer_gateways) :
          LET task == submitted'[Len(submitted) + k] IN
          /\ task.peer = peer_gateways[k]
          /\ task.message.message_type = "HEARTBEAT"
          /\ task.message.data.node_id = r.node_id
          /\ task.message = submitted'[Len(submitted) + 1].message

\* C11: a heartbeat for a node_id that has a descriptor changes only that
\* descriptor's last_heartbeat (to the time of the update) and status (to
\* active) and emits gossip: the ring, the descriptor's address and port and
\* every other descriptor are as they were, in each step of the handler.
C11_KnownHeartbeatFrame ==
    [][\A t \in HttpThreads : OfKnownNode(t) =>
          /\ hash_ring' = hash_ring
          /\ DOMAIN nodes' = DOMAIN nodes
          /\ \A n \in DOMAIN nodes : n # req[t].node_id => nodes'[n] = nodes[n]
          /\ HeartbeatUpdates(t) =>
                /\ nodes'[req[t].node_id] =
                       [nodes[req[t].node_id] EXCEPT !.last_heartbeat = now,
                                                     !.status = "active"]
                /\ submitted' = submitted
          /\ HeartbeatGossips(t) => nodes' = nodes /\ EmitsGossip(req[t])
          /\ HeartbeatResponds(t) => nodes' = nodes /\ submitted' = submitted]_vars

\* A heartbeat that names another address and port than the descriptor of
\* its node has been through its node_lock block and its gossip; the
\* descriptor keeps its own.
C11_Witness ==
    \E t \in HttpThreads :
        /\ pc[t] = "hb_respond"
        /\ ~req[t].new_node
        /\ req[t].node_id \in DOMAIN nodes
        /\ nodes[req[t].node_id].port # req[t].port
        /\ nodes[req[t].node_id].address # req[t].address
        /\ nodes[req[t].node_id].last_heartbeat > 0
        /\ req[t].node_id \in hash_ring.nodes

\* ---------------------------------------------------------------- C12
\* The step in which thread t reads a heartbeat body and turns it down, and
\* the step in which it goes on to handle it.
HeartbeatRejected(t) ==
    /\ pc[t] = "idle" /\ pc'[t] = "idle"
    /\ req'[t].endpoint = "heartbeat"
    /\ <<req'[t], resp'[t]>> # <<req[t], resp[t]>>

HeartbeatAccepted(t) == pc[t] = "idle" /\ pc'[t] = "hb_lock"

\* A rejected heartbeat is answered 400 and has changed nothing.
ChangesNothing(t) ==
    /\ resp'[t].status = 400
    /\ pc'[t] = "idle"
    /\ nodes' = nodes
    /\ hash_ring' = hash_ring
    /\ submitted' = submitted
    /\ next_uuid' = next_uuid

\* C12 as stated: a heartbeat body with any of node_id, address, port missing
\* is rejected with 400 and changes nothing.
C12_AsClaimed ==
    [][\A t \in HttpThreads :
          (HeartbeatRejected(t) \/ HeartbeatAccepted(t))
              /\ ~({"node_id", "address", "port"} \subseteq DOMAIN req'[t].data)
          => ChangesNothing(t)]_vars

\* C12, amended: a heartbeat body whose node_id or address is missing or
\* empty is rejected with 400, and the rejected heartbeat changes nothing:
\* node table, ring and submitted gossip are as before and the handler is
\* over. A body that has node_id and address is never rejected; when only
\* its port is missing it is handled with port 8080.
C12_MissingFieldRejected ==
    [][\A t \in HttpThreads :
          (HeartbeatRejected(t) \/ HeartbeatAccepted(t)) =>
              LET d == req'[t].data
                  bad(f) == f \notin DOMAIN d \/ d[f] = ""
              IN  /\ (bad("node_id") \/ bad("address")) <=> HeartbeatRejected(t)
                  /\ HeartbeatRejected(t) => ChangesNothing(t)
                  /\ HeartbeatAccepted(t) /\ "port" \notin DOMAIN d
                         => req'[t].port = DefaultPort]_vars

\* A heartbeat without node_id, or one with an empty node_id, has been
\* answered 400 by a gateway that has a registered node.
C12_Witness ==
    /\ nodes # <<>>
    /\ \E t \in HttpThreads :
          /\ pc[t] = "idle"
          /\ req[t].endpoint = "heartbeat"
          /\ resp[t].status = 400
          /\ ("node_id" \notin DOMAIN req[t].data \/ req[t].node_id = "")

\* ---------------------------------------------------------------- C13
\* The node has a descriptor whose status is dead.
Dead(n) == n \in DOMAIN nodes /\ nodes[n].status = "dead"

\* A health-check pass is between its start and its end.
PassRunning == pc[HealthThread] # "idle"

\* C13 (as claimed): in every reachable state a node whose descriptor is dead
\* is not in the ring's live set.
C13_AsClaimed == \A n \in Nodes : Dead(n) => n \notin hash_ring.nodes

\* C13 (amended): a descriptor is dead only while the health-check pass that
\* marked it is running and has the node in its dead_nodes list, still to be
\* removed; so whenever no pass is running no descriptor is dead, and no dead
\* node is in the ring's live set.
C13_DeadOnlyDuringPass ==
    \A n \in Nodes :
        Dead(n) => /\ PassRunning
                   /\ n \in Elems(hc.dead_nodes)

\* A pass has marked the first node dead and released node_lock, the node is
\* still in the ring, and a peer's gossip about it is about to be applied.
C13_Witness ==
    /\ pc[HealthThread] = "hc_remove"
    /\ Dead(NodeSeq[1])
    /\ NodeSeq[1] \in hash_ring.nodes
    /\ \E t \in HttpThreads :
          /\ pc[t] = "gs_apply"
          /\ req[t].inbound.data.node_id = NodeSeq[1]

\* ---------------------------------------------------------------- C14
\* The step that ends a health-check pass.
PassCompletes == pc[HealthThread] = "hc_remove" /\ pc'[HealthThread] = "idle"

\* The step in which the pass deals with node n in its loop.
PassVisits(n) ==
    /\ pc[HealthThread] \in {"hc_loop", "hc_probe"}
    /\ n \in hc.todo /\ n \notin hc'.todo

\* C14: when a health-check pass runs with no heartbeat applied while it
\* runs, every descriptor that is not dead and whose last_heartbeat is more
\* than heartbeat_timeout before the pass's clock reading when the pass takes
\* node_lock is marked dead when the pass visits it, is never probed, and when
\* the pass completes has been removed by it and is in neither the ring's
\* live set nor the node table.
C14_TimeoutEviction ==
    [][/\ \A n \in history.stale :
             PassVisits(n) => nodes'[n].status = "dead" /\ pc'[HealthThread] = "hc_loop"
       /\ PassCompletes /\ ~history.heartbeat =>
             \A n \in history.stale :
                 /\ n \in history.removed
                 /\ n \notin history.probed
                 /\ n \notin hash_ring'.nodes
                 /\ n \notin DOMAIN nodes']_vars

\* A pass with no concurrent heartbeat is about to complete: it found a node
\* timed out and removed it, and it probed another node.
C14_Witness ==
    /\ pc[HealthThread] = "hc_remove"
    /\ hc.dead_nodes = <<>>
    /\ ~history.heartbeat
    /\ history.stale # {}
    /\ history.probed # {}
    /\ history.stale \subseteq history.removed
    /\ history.stale \cap hash_ring.nodes = {}

\* ---------------------------------------------------------------- C15
\* The steps of the pass: the probe of n is sent, has come back, and the node
\* at the head of dead_nodes is removed.
ProbeSent(n) ==
    pc[HealthThread] = "hc_loop" /\ pc'[HealthThread] = "hc_probe" /\ hc'.probing = n

ProbeBack(n) ==
    pc[HealthThread] = "hc_probe" /\ pc'[HealthThread] = "hc_loop" /\ hc.probing = n

RemovesHead ==
    /\ pc[HealthThread] = "hc_remove" /\ pc'[HealthThread] = "hc_remove"
    /\ hc.dead_nodes # <<>> /\ hc'.dead_nodes = Tail(hc.dead_nodes)

Quiescent == node_lock = None /\ \A t \in Threads : pc[t] = "idle"

\* C16: once the gateway is quiescent, every node whose heartbeat was
\* accepted after the health checker last marked it dead (be it before or
\* after the pass removed it) is in the ring's live set and has an active
\* descriptor.
C16_RecoveryByHeartbeat ==
    Quiescent =>
        \A n \in history.revived :
            /\ n \in hash_ring.nodes
            /\ n \in DOMAIN nodes
            /\ nodes[n].status = "active"

\* ---------------------------------------------------------------- C17
\* The request thread is past the seen-set check with its message.
Processing(t) == pc[t] \in {"gs_apply", "gs_forward"}

\* The thread's handler leaves the gossip_lock block in this step.
GossipChecks(t) == pc[t] = "gs_seen" /\ pc'[t] # "gs_seen"

\* The thread's handler applies its message in this step.
GossipApplies(t) == pc[t] = "gs_apply" /\ pc'[t] = "gs_forward"

\* C17: a message id, once seen, stays seen; of the deliveries of one
\* message id at most one is ever past the seen-set check; a delivery whose
\* id is already seen ends with 200 and leaves the node table, the ring and
\* the submitted gossip tasks unchanged; a delivery whose id is not yet seen
\* records the id and goes on to be applied, and applying a HEARTBEAT for a
\* known node leaves its descriptor active.
C17_AppliedOnce ==
    /\ [](\A t1, t2 \in HttpThreads :
            (t1 # t2 /\ Processing(t1) /\ Processing(t2))
                => req[t1].inbound.message_id # req[t2].inbound.message_id)
    /\ [][/\ gossip_messages \subseteq gossip_messages'
          /\ \A t \in HttpThreads :
                /\ GossipChecks(t) =>
                      IF req[t].inbound.message_id \in gossip_messages
                      THEN /\ pc'[t] = "idle"
                           /\ resp'[t].status = 200
                           /\ UNCHANGED <<nodes, hash_ring, submitted, gossip_messages>>
                      ELSE /\ pc'[t] = "gs_apply"
                           /\ req[t].inbound.message_id \in gossip_messages'
                           /\ UNCHANGED <<nodes, hash_ring, submitted>>
                /\ GossipApplies(t) =>
                      LET data == req[t].inbound.data IN
                      (req[t].inbound.message_type = "HEARTBEAT" /\ data.node_id \in DOMAIN nodes)
                          => /\ data.node_id \in DOMAIN nodes'
                             /\ nodes'[data.node_id].status = "active"
         ]_vars

\* Two deliveries of one message id are in progress: the first is past the
\* seen-set check and about to be applied, the second is about to be
\* discarded.
C17_Witness ==
    \E t1, t2 \in HttpThreads :
        /\ t1 # t2
        /\ pc[t1] = "gs_apply"
        /\ pc[t2] = "gs_seen"
        /\ req[t1].inbound.message_id = req[t2].inbound.message_id
        /\ req[t2].inbound.message_id \in gossip_messages

\* ---------------------------------------------------------------- C18
\* The thread's handler is at its propagation step and takes it.
GossipPropagates(t) == pc[t] = "gs_forward" /\ pc'[t] # "gs_forward"

\* C18: gossip tasks are submitted only by a heartbeat handler gossiping its
\* own message, or by a gossip handler whose message was not seen before (it
\* is past the seen-set check) and was sent by another gateway, and then the
\* message goes to every peer; a delivery found in the seen set, and a
\* message whose sender_id is this gateway's id, submit nothing.
C18_ForwardForeignUnseen ==
    [][/\ submitted' # submitted =>
            \E t \in HttpThreads :
                \/ pc[t] = "hb_gossip" /\ pc'[t] # "hb_gossip"
                \/ /\ GossipPropagates(t)
                   /\ req[t].inbound.sender_id # gateway_id
                   /\ submitted' = submitted \o
                         [i \in 1 .. Len(peer_gateways) |->
                             [peer |-> peer_gateways[i], message |-> req[t].inbound]]
       /\ \A t \in HttpThreads :
             /\ (GossipChecks(t) /\ req[t].inbound.message_id \in gossip_messages)
                    => submitted' = submitted
             /\ (GossipPropagates(t) /\ req[t].inbound.sender_id = gateway_id)
                    => submitted' = submitted
      ]_vars

\* A peer's message has been passed on to the peers, and a message this
\* gateway sent itself has come back, was not seen before and is at the
\* propagation step.
C18_Witness ==
    /\ \E i \in 1 .. Len(submitted) : submitted[i].message.sender_id # gateway_id
    /\ \E t \in HttpThreads :
          /\ pc[t] = "gs_forward"
          /\ req[t].inbound.sender_id = gateway_id

\* ---------------------------------------------------------------- C19
\* C19: applying a HEARTBEAT message for a known node changes the descriptor
\* (last_heartbeat becomes data.timestamp, status becomes active) only if
\* data.timestamp is newer than the descriptor's last_heartbeat, and otherwise
\* leaves the node table as it is; no step of a gossip handler decreases a
\* descriptor's last_heartbeat.
C19_NewerOnly ==
    [][\A t \in HttpThreads :
          /\ GossipApplies(t) =>
                LET message == req[t].inbound
                    node_id == message.data.node_id
                IN  (message.message_type = "HEARTBEAT" /\ node_id \in DOMAIN nodes) =>
                        IF message.data.timestamp > nodes[node_id].last_heartbeat
                        THEN nodes' = [nodes EXCEPT
                                         ![node_id].last_heartbeat = message.data.timestamp,
                                         ![node_id].status = "active"]
                        ELSE nodes' = nodes
          /\ (pc[t] \in {"gs_seen", "gs_apply", "gs_forward"} /\ pc'[t] # pc[t]) =>
                \A n \in DOMAIN nodes :
                    n \in DOMAIN nodes' /\ nodes'[n].last_heartbeat >= nodes[n].last_heartbeat
      ]_vars

\* ---------------------------------------------------------------- C20
\* C20: applying a not-yet-seen HEARTBEAT message for a node_id without a
\* descriptor creates one, with the message's address, port and timestamp and
\* status active.
C20_UnknownNodeCreated ==
    [][\A t \in HttpThreads :
          GossipApplies(t) =>
              LET message == req[t].inbound
                  node_id == message.data.node_id
              IN  (message.message_type = "HEARTBEAT" /\ node_id \notin DOMAIN nodes) =>
                      /\ node_id \in DOMAIN nodes'
                      /\ nodes'[node_id].address = message.data.address
                      /\ nodes'[node_id].port = message.data.port
                      /\ nodes'[node_id].last_heartbeat = message.data.timestamp
                      /\ nodes'[node_id].status = "active"
      ]_vars

\* ---------------------------------------------------------------- C21
\* The thread takes a step of the gossip handler.
GossipStep(t) ==
    /\ pc'[t] # pc[t]
    /\ \/ pc[t] \in {"gs_seen", "gs_apply", "gs_forward"}
       \/ pc'[t] = "gs_seen"

\* The step is one of the ring's writers: the node_lock block of a heartbeat
\* handler, a removal by the health checker, or an admin clear.
RingWriterStep ==
    \/ \E t \in HttpThreads : pc[t] = "hb_lock" /\ pc'[t] = "hb_gossip"
    \/ /\ pc[HealthThread] = "hc_remove"
       /\ hc.dead_nodes # <<>>
       /\ hc'.dead_nodes = Tail(hc.dead_nodes)
    \/ \E t \in HttpThreads :
          /\ pc[t] = "idle" /\ pc'[t] = "idle"
          /\ req'[t].endpoint = "clear_nodes"
          /\ resp'[t].body = "success"

\* C21: no step of the gossip handler, whatever the message's type and
\* whether or not its node has a descriptor, changes the ring (nodes, ring,
\* sorted_keys); the ring changes only in a heartbeat handler's node_lock
\* block, in a removal by the health checker and in an admin clear.
C21_GossipLeavesRing ==
    [][/\ \A t \in HttpThreads : GossipStep(t) => hash_ring' = hash_ring
       /\ hash_ring' # hash_ring => RingWriterStep
      ]_vars

\* The ring has a live node, and two messages are being processed: a
\* HEARTBEAT and one of another type.
C21_Witness ==
    /\ hash_ring.nodes # {}
    /\ \E t1, t2 \in HttpThreads :
          /\ pc[t1] = "gs_forward" /\ req[t1].inbound.message_type = "HEARTBEAT"
          /\ pc[t2] = "gs_forward" /\ req[t2].inbound.message_type # "HEARTBEAT"

\* ---------------------------------------------------------------- C22
\* The id of the k-th message made in the cluster.
MessageId(k) == "msg-" \o ToString(k)

\* C22: in a cluster whose peer lists connect every gateway with every other
\* one and whose gossip posts are all answered, the HEARTBEAT message a
\* gateway makes for a heartbeat it accepted is eventually processed (found
\* new and recorded in the seen set) at every other gateway.
C22_Convergence ==
    \A g \in Gateways : \A k \in 1 .. MaxMessages :
        (MessageId(k) \in cluster[g].sent)
            ~> (\A h \in Gateways \ {g} : MessageId(k) \in cluster[h].gossip_messages)

\* A message the first gateway made has been processed at the last gateway,
\* which is not among the first one's peers, and the first gateway's
\* executor has nothing left to send.
C22_Witness ==
    /\ \A i \in 1 .. Len(ClusterPeers[gateway_id]) :
          ClusterPeers[gateway_id][i] # PeerIds[Len(PeerIds)]
    /\ cluster[gateway_id].executor = {}
    /\ \E id \in cluster[gateway_id].sent :
          id \in cluster[PeerIds[Len(PeerIds)]].gossip_messages

\* ---------------------------------------------------------------- C23
\* The thread's lookup is answered in this step: with 404 at its start, with
\* 500 by the ring, or after the read of the node table.
LookupAnswers(t) ==
    /\ pc'[t] = "idle"
    /\ req'[t].endpoint = "nodes_key"
    /\ \/ pc[t] \in {"lk_ring", "lk_lock"}
       \/ pc[t] = "idle" /\ (req'[t] # req[t] \/ resp'[t] # resp[t])

C24_ReadersSeeWholeUpdates ==
    \A t \in HttpThreads :
        /\ pc[t] = "lk_ring" =>
              /\ hash_ring.sorted_keys = sorted(DOMAIN hash_ring.ring)
              /\ ~get_node_raises(hash_ring, req[t].data.key)
        /\ (pc[t] = "idle" /\ req[t].endpoint = "nodes_key") =>
              /\ resp[t].status # 500
              /\ resp[t].body # "Node not found"

\* ---------------------------------------------------------------- C25
\* C25: while a /health probe is in flight the health checker does not hold
\* node_lock, so no heartbeat or lookup handler waits for node_lock until a
\* probe returns.
C25_NoLockAcrossProbe ==
    pc[HealthThread] = "hc_probe" =>
        /\ node_lock # HealthThread
        /\ \A t \in HttpThreads : pc[t] \in {"hb_lock", "lk_lock"} => node_lock = None

\* ------------------------------------------------------------------ C26
\* The node is registered and present in the gateway's node table and ring.
NodeRegistered ==
    /\ kv.registered
    /\ kv.node_id \in DOMAIN nodes
    /\ kv.node_id \in hash_ring.nodes

\* The heartbeat thread sends a request to the gateway.
Sends == kv.pc = "loop" /\ kv'.pc \in {"register", "heartbeat"}

\* C26: in the heartbeat loop, an iteration of an unregistered node begins
\* with a registration; `registered` becomes true only when a registration
\* is answered 200; a failed registration is followed in its iteration by no
\* heartbeat but by a sleep of registration_retry_interval, and the next
\* request after it is a registration again.
C26_RegistrationFirst ==
    [][/\ Sends /\ ~kv.registered => kv'.pc = "register" /\ kv'.sent = "register"
       /\ ~kv.registered /\ kv'.registered =>
             /\ kv.pc = "register"
             /\ kv.gateway_up
             /\ receive_heartbeat(nodes, hash_ring, registration_data(kv)).status = 200
       /\ kv.pc = "register" /\ kv'.pc # "register" /\ ~kv'.ok =>
             /\ kv'.pc = "sleep"
             /\ kv'.sleep = registration_retry_interval
             /\ kv'.sent = "register"
       /\ Sends /\ kv.sent = "register" /\ ~kv.ok => kv'.pc = "register"]_vars

\* A registration has failed and the node sleeps before it tries again.
C26_Witness ==
    /\ kv.pc = "sleep"
    /\ kv.sent = "register"
    /\ ~kv.ok
    /\ kv.sleep = registration_retry_interval

\* ------------------------------------------------------------------ C27
\* C27: a heartbeat that fails, by its answer or by a transport error,
\* leaves the node unregistered, and the next request the node sends is a
\* registration.
C27_FailedHeartbeatReregisters ==
    [][/\ kv.pc = "heartbeat" /\ kv'.pc # "heartbeat" /\ Posted(heartbeat_data(kv)).status # 200 =>
             ~kv'.registered
       /\ Sends /\ kv.sent = "heartbeat" /\ ~kv.ok => kv'.pc = "register"]_vars

\* A heartbeat has failed: the node is unregistered and sleeps until its
\* next iteration.
C27_Witness ==
    /\ kv.pc = "sleep"
    /\ kv.sent = "heartbeat"
    /\ ~kv.ok
    /\ ~kv.registered
    /\ kv.running
    /\ kv.sleep = heartbeat_interval

\* ------------------------------------------------------------------ C28
\* C28: while the node runs and the gateway can be reached, the node is
\* eventually registered and in the gateway's node table and ring, unless
\* the node is stopped or the gateway goes out of reach before; outages being
\* finite, this holds again after each of them.
C28_EventuallyRegistered ==
    (kv.running /\ kv.gateway_up) ~> (~kv.running \/ ~kv.gateway_up \/ NodeRegistered)

\* The node is registered and on the ring after the gateway had been out of
\* reach.
C28_Witness ==
    /\ NodeRegistered
    /\ kv.running
    /\ kv.gateway_up
    /\ kv.outages = MaxOutages

\* ------------------------------------------------------------------ C29
\* C29: GET /health answers 503 'stopping' exactly when stop() has been
\* called, and 200 'healthy' before, the time before start() included; after
\* a 'stopping' answer no answer is 'healthy'.
C29_HealthFollowsStop ==
    [][/\ kv'.health # kv.health =>
             kv'.health = IF kv.stop_called
                          THEN [status |-> 503, body |-> "stopping"]
                          ELSE [status |-> 200, body |-> "healthy"]
       /\ kv.health.body = "stopping" => kv'.health.body = "stopping"]_vars

\* A node started again after stop() still answers 'stopping'.
C29_Witness ==
    /\ kv.health = [status |-> 503, body |-> "stopping"]
    /\ kv.running
    /\ kv.pc \notin {"none", "done"}

\* ------------------------------------------------------------------ C30
\* C30: when the lookup at the gateway fails, by a status other than 200 or
\* by raising, put and delete return False and get returns None, and the
\* client has sent no request to a storage node.
C30_FailedLookupFails ==
    [][\A outcome \in LookupOutcomes :
          ClientLookup(outcome) /\ lookup(outcome, client.key).status # 200 =>
             /\ client'.pc = "done"
             /\ client'.ret = IF client.op \in {"put", "delete"} THEN "False" ELSE "None"
             /\ client'.requests = <<>>]_vars

\* A get whose lookup was answered 404 (no node in the ring) has returned
\* None without a request to a storage node.
C30_Witness ==
    /\ client.op = "get"
    /\ client.pc = "done"
    /\ client.node = <<>>
    /\ client.ret = "None"
    /\ client.requests = <<>>

\* ------------------------------------------------------------------ C34
\* The positions of the ring self that node_id holds.
Held(self, node_id) == {p \in DOMAIN self.ring : self.ring[p] = node_id}

\* C34: the pair inserted later owns a position two pairs hash to: a node
\* just added holds every position its virtual keys hash to; and after a
\* removal every remaining position maps to a live node and every remaining
\* live node holds the positions it held before the removal.
C34_CollisionConsistent ==
    /\ (last_op.op = "add_node" /\ last_op.node_id \notin prev_ring.nodes) =>
          \A i \in Replicas :
              LET p == _hash(virtual_key(last_op.node_id, i))
              IN  p \in DOMAIN hash_ring.ring /\ hash_ring.ring[p] = last_op.node_id
    /\ (last_op.op = "remove_node" /\ last_op.node_id \in prev_ring.nodes) =>
          /\ \A p \in DOMAIN hash_ring.ring : hash_ring.ring[p] \in hash_ring.nodes
          /\ \A n \in hash_ring.nodes : Held(hash_ring, n) = Held(prev_ring, n)

\* ------------------------------------------------------------------ C38
\* C38: add_node(n) of a node n that is not in the ring moves keys only to
\* n: every key has the owner it had before, or n.
C38_AddOnlyMovesToNew ==
    (last_op.op = "add_node" /\ last_op.node_id \notin prev_ring.nodes) =>
        \A k \in Keys :
            get_node(hash_ring, k) \in {get_node(prev_ring, k), last_op.node_id}

\* A third node has just been added and has taken over a key that another
\* node owned, while some other key kept its owner.
C38_Witness ==
    /\ last_op.op = "add_node"
    /\ Cardinality(prev_ring.nodes) = 2
    /\ last_op.node_id \notin prev_ring.nodes
    /\ \E k \in Keys : /\ get_node(prev_ring, k) \in prev_ring.nodes
                       /\ get_node(hash_ring, k) = last_op.node_id
    /\ \E k \in Keys : /\ get_node(hash_ring, k) = get_node(prev_ring, k)
                       /\ get_node(hash_ring, k) # last_op.node_id

\* ------------------------------------------------------------------ C32
\* C32: after clear_nodes the node table is empty and the hash ring is an
\* empty ring with the virtual-node count the gateway's ring was constructed
\* with.
C32_ClearKeepsVirtualNodes ==
    [][\A t \in HttpThreads :
          ClearNodes(t) =>
             /\ nodes' = <<>>
             /\ hash_ring'.nodes = {}
             /\ hash_ring'.ring = <<>>
             /\ hash_ring'.sorted_keys = <<>>
             /\ hash_ring'.virtual_nodes = virtual_nodes]_vars

\* ------------------------------------------------------------------ C37
\* C37: whenever no thread is inside a node_lock block, the node_ids that
\* have a descriptor are the members of the hash ring's live set.
C37_TableMatchesRing ==
    node_lock = None => DOMAIN nodes = hash_ring.nodes

\* Two first heartbeats of one node handled at once: one handler has added
\* the node, the other has found it already there, and no lock is held.
C37_Witness ==
    /\ node_lock = None
    /\ \E t, u \in HttpThreads :
          /\ t # u
          /\ pc[t] = "hb_gossip" /\ pc[u] = "hb_gossip"
          /\ req[t].node_id = req[u].node_id
          /\ req[t].new_node /\ ~req[u].new_node
          /\ req[t].node_id \in DOMAIN nodes
          /\ req[t].node_id \in hash_ring.nodes

\* ------------------------------------------------------------------ C40
\* C40: no lookup answers 200 with a descriptor whose status is dead: every
\* descriptor returned as the owner of a key is active.
C40_NoDeadOwner ==
    \A t \in HttpThreads :
        (resp[t].status = 200 /\ resp[t].body = "node") => resp[t].node.status = "active"

\* ------------------------------------------------------------------ C33
\* A data request with its key has just been served.
Served(route) ==
    /\ kv'.request.route = route
    /\ ~Falsy(kv'.request.key)
    /\ \/ \E body \in PutBodies : PutKey(body)
       \/ \E key \in StoreKeys : GetKey(key) \/ DeleteKey(key)
       \/ \E body \in KeyBodies : GetKeyByBody(body) \/ DeleteKeyByBody(body)

\* C33: on one storage node, get(k) answers 200 with the value of the last
\* put of k answered 200 that no delete of k answered 200 has followed, and
\* 404 when there is none; delete(k) answers 200 and removes k when k is in
\* the map, and 404 leaving the map unchanged when it is not; a put without
\* key answers 400 and leaves the map unchanged.
C33_MapSemantics ==
    [][/\ Served("get") =>
             /\ kv'.data = kv.data
             /\ IF kv'.request.key \in DOMAIN kv.acked
                THEN /\ kv'.answer.status = 200
                     /\ kv'.answer.value = kv.acked[kv'.request.key]
                ELSE kv'.answer.status = 404
       /\ Served("delete") =>
             IF kv'.request.key \in DOMAIN kv.data
             THEN /\ kv'.answer.status = 200
                  /\ kv'.data = DictDel(kv.data, kv'.request.key)
             ELSE /\ kv'.answer.status = 404
                  /\ kv'.data = kv.data
       /\ \A body \in PutBodies :
             PutKey(body) /\ Falsy(get(body, "key", None)) =>
                /\ kv'.answer.status = 400
                /\ kv'.data = kv.data]_vars

\* A get has answered 404 for a key that was put and then deleted, while the
\* other key's put is still there.
C33_Witness ==
    /\ kv.request.route = "get"
    /\ kv.answer.status = 404
    /\ kv.request.key \notin DOMAIN kv.acked
    /\ kv.acked # <<>>
    /\ kv.data = kv.acked

\* ------------------------------------------------------------------ C39
\* C39: once stop() has returned, and until the node is started again,
\* `registered` is false and the heartbeat loop sends no request of a new
\* iteration, also when a request of the loop was in flight at the stop.
C39_StoppedStaysUnregistered ==
    [][(kv.stop_called /\ ~kv.running /\ ~kv'.running) =>
          /\ ~kv'.registered
          /\ ~Sends]_vars

\* ------------------------------------------------------------------ C35
\* No gateway has passed a message id on more than once, and none has passed
\* on a message it made itself.
ForwardsOnce ==
    \A g \in Gateways : \A id \in DOMAIN cluster[g].forwarded :
        cluster[g].forwarded[id] <= 1 /\ id \notin cluster[g].sent

\* No gossip message is in flight: every executor has run all its tasks.
Quiet == \A g \in Gateways : cluster[g].executor = {}

\* C35: whatever the peer lists, every gateway passes a message id on at
\* most once (so an accepted heartbeat causes at most one send per gateway
\* and peer), and the cluster always comes to a state with no gossip message
\* in flight.
C35_BoundedAmplification == [](ForwardsOnce) /\ (~Quiet ~> Quiet)

\* With peer lists that form a cycle, a message has come back to the gateway
\* that made it, every other gateway has passed it on once, and nothing is
\* in flight.
C35_Witness ==
    /\ \E topology \in {CyclePeers, MeshPeers} :
          \A g \in Gateways : cluster[g].peer_gateways = topology[g]
    /\ Quiet
    /\ \E g \in Gateways : \E id \in cluster[g].sent :
          /\ id \in cluster[g].gossip_messages
          /\ \A h \in Gateways \ {g} : get(cluster[h].forwarded, id, 0) = 1


\* ------------------------------------------------------------------ C36
\* The HEARTBEAT messages made so far, by any gateway, about node_id.
MadeAbout(node_id) ==
    {message \in UNION {cluster[g].made : g \in Gateways} :
        message.data.node_id = node_id}

\* Those of them with the highest timestamp.
Latest(node_id) ==
    {message \in MadeAbout(node_id) :
        \A other \in MadeAbout(node_id) :
            other.data.timestamp <= message.data.timestamp}

\* Every gateway, the one that made it included, has taken the message in
\* by _process_gossip_message.
ProcessedByAll(message) ==
    \A g \in Gateways : message.message_id \in cluster[g].gossip_messages

\* C36: when every gateway has processed the HEARTBEAT message with the
\* highest timestamp about a node and nothing is in flight any more, all the
\* gateways that have a descriptor of the node hold the same last_heartbeat
\* in it, with status active.
C36_LatestAgreed ==
    \A node_id \in Nodes :
        (/\ Quiet
         /\ Latest(node_id) # {}
         /\ \A message \in Latest(node_id) : ProcessedByAll(message))
        => \A g \in Gateways : \A h \in Gateways :
              (node_id \in DOMAIN cluster[g].nodes /\ node_id \in DOMAIN cluster[h].nodes)
              => /\ cluster[g].nodes[node_id].last_heartbeat
                        = cluster[h].nodes[node_id].last_heartbeat
                 /\ cluster[g].nodes[node_id].status = "active"


\* ------------------------------------------------------------------ C31
\* client.get has come to its return, for a key of which a put returned
\* True before.
GetAfterPut ==
    /\ client.pc = "done"
    /\ client.op = "get"
    /\ client.key \in DOMAIN client.written

\* The get returns the value of the last successful put, when neither the
\* ring's membership nor the node that stored it has changed since that put
\* was called.
ReadsOwnWrite ==
    (GetAfterPut /\ client.written[client.key].steady)
    => client.ret = client.written[client.key].value

\* The get returns None when the gateway resolved the key to another node
\* than the one that stored the last successful put.
AbsentAfterMove ==
    (/\ GetAfterPut
     /\ client.node # <<>>
     /\ client.node.node_id # client.written[client.key].owner)
    => client.ret = failure("get")

\* C31: after a successful put(k, v), with membership unchanged and the
\* owner up, get(k) returns v; and when membership has changed so that k
\* resolves to a different owner, get(k) returns absent until k is put again.
C31_ReadYourWrite == ReadsOwnWrite /\ AbsentAfterMove

====
